---- MODULE Spec2Model ----
(***************************************************************************)
(* Model of the matrix visual's hierarchy navigator                        *)
(* (src/Clients/Visuals/visuals/matrix.ts): flattening of the row and      *)
(* column hierarchies, body cell intersections, corner cells.              *)
(*                                                                         *)
(* JavaScript objects live in a heap (nodes): a matrix node is a heap      *)
(* address, its fields are the fields of the record stored there, and two  *)
(* references are the same object iff they are the same address.           *)
(***************************************************************************)
EXTENDS Integers, Sequences, FiniteSets, TLC

VARIABLES
    nodes,      \* heap: address -> DataViewMatrixNode / MatrixVisualNode fields
    nav,        \* the MatrixHierarchyNavigator object's fields
    allocated,  \* number of payloads the host has built so far
    ret,        \* the last call on the navigator: operation, arguments, result
    visual      \* the Matrix visual's fields: dataView, tablixControl, models

vars == <<nodes, nav, allocated, ret, visual>>

(***************************************************************************)
(* Bounds of the model.                                                    *)
(***************************************************************************)
MaxRowNodes == 2      \* nodes below the row root
MaxColNodes == 3      \* nodes below the column root
MaxFewNodes == 1      \* nodes below a root where the shape is not the point
MaxPayloads == 2      \* payloads the host delivers in one run
MaxLevels == 2        \* declared levels of a hierarchy
MaxValueSources == 2  \* entries of matrix.valueSources

(***************************************************************************)
(* JavaScript's undefined / null for number-valued and string-valued       *)
(* fields.                                                                 *)
(***************************************************************************)
Undef == 0 - 1
Null == 0 - 2
UndefStr == "<undefined>"

IsTruthy(n) == n # Undef /\ n # Null /\ n # 0

Max(a, b) == IF a >= b THEN a ELSE b

\* The elements of a finite set of integers, ascending.
RECURSIVE Ascending(_)
Ascending(S) ==
    IF S = {} THEN <<>>
    ELSE LET m == CHOOSE x \in S : \A y \in S : x <= y
         IN  <<m>> \o Ascending(S \ {m})

Range(s) == {s[i] : i \in 1..Len(s)}

(***************************************************************************)
(* Metadata columns (DataViewMetadataColumn) and hierarchy levels          *)
(* (DataViewHierarchyLevel): what the navigator reads of them.             *)
(***************************************************************************)
NoKpi == {}

\* A metadata column; format is its format string ("" when it has none),
\* kpi the set of values its status graphic can show ({} when it has none).
Column(queryName, displayName, format, kpi) ==
    [queryName |-> queryName, displayName |-> displayName,
     format |-> format, kpi |-> kpi]

NoColumn == Column(UndefStr, UndefStr, "", NoKpi)

\* Source s of level l of the hierarchy of an axis ("R" rows, "C" columns).
\* The first source of every second level carries a format string.
LevelSource(axis, l, s) ==
    Column(axis \o ToString(l) \o "." \o ToString(s),
           axis \o "-level" \o ToString(l) \o "-source" \o ToString(s),
           IF l % 2 = 0 /\ s = 0 THEN "#" ELSE "",
           NoKpi)

\* levels array of a hierarchy: nLevels levels of nSources sources each.
Levels(axis, nLevels, nSources) ==
    [l \in 1..nLevels |->
        [sources |-> [s \in 1..nSources |-> LevelSource(axis, l - 1, s - 1)]]]

\* JavaScript array read arr[i] (0-based); the result says whether it is defined.
InRange(arr, i) == i >= 0 /\ i < Len(arr)
At(arr, i) == arr[i + 1]

(***************************************************************************)
(* The host's payloads.  A payload is described by the shape of its two    *)
(* trees and the fields of their nodes; BuildTree lays a described tree    *)
(* out in the heap.  Local node 0 of a tree is its root, local nodes 1..n  *)
(* are the nodes below it; parents[i] < i is the local parent of i, and    *)
(* the children of a node are in ascending local order.                    *)
(***************************************************************************)
ParentVectors(n) == {p \in [1..n -> 0..n] : \A i \in 1..n : p[i] < i}

\* Tree shapes with at most maxN nodes below the root; a root may also have
\* no children property at all.
Shapes(maxN) ==
    {[hasChildren |-> FALSE, parents |-> <<>>]}
    \cup {[hasChildren |-> TRUE, parents |-> p] :
            p \in UNION {ParentVectors(n) : n \in 0..maxN}}

RECURSIVE Depth(_, _)
Depth(parents, i) == IF parents[i] = 0 THEN 0 ELSE 1 + Depth(parents, parents[i])

\* Number of depth levels a shape uses.
Height(parents) ==
    IF Len(parents) = 0 THEN 0
    ELSE 1 + (CHOOSE d \in {Depth(parents, i) : i \in 1..Len(parents)} :
                 \A j \in 1..Len(parents) : Depth(parents, j) <= d)

LocalChildren(parents, k) == Ascending({i \in 1..Len(parents) : parents[i] = k})

\* Heap addresses: every tree gets a block of Stride addresses of its own.
Stride == Max(MaxRowNodes, MaxColNodes) + 1
RowBase(k) == (2 * k) * Stride
ColBase(k) == (2 * k + 1) * Stride
BlockOf(a) == (a \div Stride) * Stride

\* A node as the host delivers it (DataViewMatrixNode), with the fields the
\* visual adds later (MatrixVisualNode) still undefined.
NewNode(children, hasChildren, level, levelSourceIndex, isSubtotal, identity, value, hasValues, values) ==
    [children |-> children, hasChildren |-> hasChildren, level |-> level,
     levelSourceIndex |-> levelSourceIndex, isSubtotal |-> isSubtotal,
     identity |-> identity, value |-> value,
     hasValues |-> hasValues, values |-> values,
     index |-> Undef, leafIndex |-> Undef, parent |-> Undef,
     name |-> UndefStr, queryName |-> UndefStr]

BuildTree(desc, base) ==
    LET n == Len(desc.parents)
        kids(k) == [j \in 1..Len(LocalChildren(desc.parents, k)) |->
                        base + LocalChildren(desc.parents, k)[j]]
    IN  [a \in base..(base + n) |->
            IF a = base
            THEN NewNode(kids(0), desc.hasChildren, Undef, Undef, FALSE, FALSE,
                         Undef, FALSE, <<>>)
            ELSE LET i == a - base
                 IN  NewNode(kids(i), Len(kids(i)) > 0, desc.level[i],
                             desc.levelSourceIndex[i], desc.isSubtotal[i],
                             desc.identity[i], desc.value[i],
                             desc.hasValues[i], desc.values[i])]

\* The DataViewMatrix object of payload number k.
BuildMatrix(p, k) ==
    [id |-> k,
     rows |-> [root |-> RowBase(k), levels |-> p.rows.levels],
     columns |-> [root |-> ColBase(k), levels |-> p.columns.levels],
     valueSources |-> p.valueSources]

\* The heap with payload number k added.
Deliver(heap, p, k) ==
    LET rows == BuildTree(p.rows, RowBase(k))
        cols == BuildTree(p.columns, ColBase(k))
    IN  [a \in DOMAIN heap \cup DOMAIN rows \cup DOMAIN cols |->
            IF a \in DOMAIN rows THEN rows[a]
            ELSE IF a \in DOMAIN cols THEN cols[a]
            ELSE heap[a]]

ValueSources(n) ==
    [s \in 1..n |->
        Column("V" \o ToString(s - 1), "measure" \o ToString(s - 1), "",
               IF s = 2 THEN {ToString(10 * r) : r \in 1..MaxRowNodes} ELSE NoKpi)]

(***************************************************************************)
(* Payload family of the update protocol: every pair of tree shapes, the   *)
(* nodes' declared level their depth, and one declared level per depth     *)
(* the tree uses.                                                          *)
(***************************************************************************)
ShapedTree(axis, shape) ==
    LET n == Len(shape.parents)
    IN  [hasChildren |-> shape.hasChildren,
         parents |-> shape.parents,
         levels |-> Levels(axis, Height(shape.parents), 1),
         level |-> [i \in 1..n |-> Depth(shape.parents, i)],
         levelSourceIndex |-> [i \in 1..n |-> Undef],
         isSubtotal |-> [i \in 1..n |-> FALSE],
         identity |-> [i \in 1..n |-> TRUE],
         value |-> [i \in 1..n |-> i],
         hasValues |-> [i \in 1..n |-> FALSE],
         values |-> [i \in 1..n |-> <<>>]]

ShapedPayloads ==
    {[rows |-> ShapedTree("R", r), columns |-> ShapedTree("C", c),
      valueSources |-> ValueSources(1)] :
        r \in Shapes(MaxRowNodes), c \in Shapes(MaxColNodes)}

\* The payloads a running navigator is updated with: every row shape, and
\* column trees of few nodes.
UpdatePayloads ==
    {[rows |-> ShapedTree("R", r), columns |-> ShapedTree("C", c),
      valueSources |-> ValueSources(1)] :
        r \in Shapes(MaxRowNodes), c \in Shapes(MaxFewNodes)}

(***************************************************************************)
(* Payload family of the Matrix visual: row trees of few nodes over column *)
(* trees of one or two leaves.                                             *)
(***************************************************************************)
FewColumns ==
    {[hasChildren |-> TRUE, parents |-> <<0>>],
     [hasChildren |-> TRUE, parents |-> <<0, 0>>]}

\* dataView.metadata: whether it has a segment (more data to load), and
\* the columns it lists, named by a number.
Metadata(segment, columns) == [segment |-> segment, columns |-> columns]
NoMetadata == Metadata(FALSE, Undef)

VisualPayloads ==
    {[rows |-> ShapedTree("R", r), columns |-> ShapedTree("C", c),
      valueSources |-> ValueSources(1), metadata |-> Metadata(FALSE, 0)] :
        r \in Shapes(MaxFewNodes), c \in FewColumns}

\* The first address not in use in the block of the tree at root.
FreeAddress(heap, root) == root + Cardinality({a \in DOMAIN heap : BlockOf(a) = root})

\* The host merges a segment into the tree it delivered before: one more
\* row, a leaf of the first level, under the same root object.
AppendRow(heap, root, free) ==
    [a \in DOMAIN heap \cup {free} |->
        IF a = root
        THEN [heap[root] EXCEPT !.children = Append(@, free),
                                !.hasChildren = TRUE]
        ELSE IF a = free
        THEN NewNode(<<>>, FALSE, 0, Undef, FALSE, TRUE, free - root, FALSE, <<>>)
        ELSE heap[a]]

\* The DataViewMatrix object of the merged data view: a new object, number
\* k, on the roots of the one before.
MergedMatrix(previous, k) ==
    [previous EXCEPT
        !.id = k,
        !.rows.levels = IF Len(@) = 0 THEN Levels("R", 1, 1) ELSE @]

\* The host merges a segment that continues the last row of the first
\* level: that row, a leaf or not before, gets one more child.
GrowRow(heap, last, free) ==
    [a \in DOMAIN heap \cup {free} |->
        IF a = last
        THEN [heap[last] EXCEPT !.children = Append(@, free),
                                !.hasChildren = TRUE]
        ELSE IF a = free
        THEN NewNode(<<>>, FALSE, 1, Undef, FALSE, TRUE, free - BlockOf(free), FALSE, <<>>)
        ELSE heap[a]]

\* The DataViewMatrix object of the data view merged so: a new object on
\* the roots of the one before, its rows two levels deep.
GrownMatrix(previous, k) ==
    [previous EXCEPT
        !.id = k,
        !.rows.levels = IF Len(@) < 2 THEN Levels("R", 2, 1) ELSE @]

\* The last child of the node at a.
LastChild(heap, a) == heap[a].children[Len(heap[a].children)]

\* The heap with a column tree added for data view number k, whose rows
\* are the ones delivered before.
DeliverColumns(heap, columns, k) ==
    [a \in DOMAIN heap \cup DOMAIN BuildTree(columns, ColBase(k)) |->
        IF a \in DOMAIN heap THEN heap[a]
        ELSE BuildTree(columns, ColBase(k))[a]]

\* The DataViewMatrix object of that data view: a new object on the rows
\* of the one before and on the new column tree.
RecolumnedMatrix(previous, columns, k) ==
    [previous EXCEPT
        !.id = k,
        !.columns = [root |-> ColBase(k), levels |-> columns.levels]]

(***************************************************************************)
(* Payload family of the level metadata: hierarchies that declare 0 to     *)
(* MaxLevels levels of one source each over trees whose nodes name their   *)
(* depth as level, or (skew 1) every second node the level below it; the   *)
(* last node names the source at sourceIndex.                              *)
(***************************************************************************)
MetadataTree(axis, shape, nLevels, skew, sourceIndex) ==
    [ShapedTree(axis, shape) EXCEPT
        !.levels = Levels(axis, nLevels, 1),
        !.level = [i \in 1..Len(shape.parents) |->
                        Depth(shape.parents, i) + (IF i % 2 = 0 THEN skew ELSE 0)],
        !.levelSourceIndex = [i \in 1..Len(shape.parents) |->
                        IF i = Len(shape.parents) THEN sourceIndex ELSE Undef]]

MetadataPayloads ==
    {[rows |-> MetadataTree("R", r, nLevels, skew, sourceIndex),
      columns |-> MetadataTree("C", c, nLevels, skew, sourceIndex),
      valueSources |-> ValueSources(1)] :
        r \in Shapes(MaxFewNodes), c \in Shapes(MaxColNodes),
        nLevels \in 0..MaxLevels, skew \in 0..1, sourceIndex \in {Undef, 1}}

(***************************************************************************)
(* Payload family of the corner cells: hierarchies that declare 0 to       *)
(* MaxLevels levels of two sources each, whatever their (small) trees.     *)
(***************************************************************************)
LevelledTree(axis, shape, nLevels) ==
    [ShapedTree(axis, shape) EXCEPT !.levels = Levels(axis, nLevels, 2)]

LevelledPayloads ==
    {[rows |-> LevelledTree("R", r, rl), columns |-> LevelledTree("C", c, cl),
      valueSources |-> ValueSources(1)] :
        r \in Shapes(MaxFewNodes), c \in Shapes(MaxFewNodes),
        rl \in 0..MaxLevels, cl \in 0..MaxLevels}

(***************************************************************************)
(* Payload family of the body cells.  The last of several siblings is a    *)
(* subtotal.  Row leaves carry a values object (unless the kind is         *)
(* "absent") with an intersection for every column leaf ("dense") or for   *)
(* the even column leaf indices only ("sparse"); the intersections name    *)
(* no value source, or value source 0, 1 or 2, by row and column.          *)
(***************************************************************************)
ValuesKinds == {"absent", "sparse", "dense"}

IsLastOfSeveral(parents, i) ==
    /\ \E j \in 1..Len(parents) : j # i /\ parents[j] = parents[i]
    /\ \A j \in 1..Len(parents) : parents[j] = parents[i] => j <= i

LeafCount(parents) ==
    Cardinality({i \in 1..Len(parents) : LocalChildren(parents, i) = <<>>})

\* The DataViewMatrixNodeValue of row node i at column leaf index j.
Intersection(i, j) ==
    [defined |-> TRUE, value |-> 10 * i + j,
     valueSourceIndex |-> ((i + 2 * j) % 4) - 1]

RowValues(kind, i, nColumnLeaves) ==
    [j \in {k \in 0..(nColumnLeaves - 1) : kind = "dense" \/ k % 2 = 0} |->
        Intersection(i, j)]

ValuedRows(shape, kind, nColumnLeaves) ==
    LET n == Len(shape.parents)
    IN  [ShapedTree("R", shape) EXCEPT
            !.isSubtotal = [i \in 1..n |-> IsLastOfSeveral(shape.parents, i)],
            !.hasValues = [i \in 1..n |->
                kind # "absent" /\ LocalChildren(shape.parents, i) = <<>>],
            !.values = [i \in 1..n |->
                IF kind # "absent" /\ LocalChildren(shape.parents, i) = <<>>
                THEN RowValues(kind, i, nColumnLeaves) ELSE <<>>]]

SubtotalledColumns(shape) ==
    [ShapedTree("C", shape) EXCEPT
        !.isSubtotal = [i \in 1..Len(shape.parents) |->
                            IsLastOfSeveral(shape.parents, i)]]

ValuedPayloads ==
    {[rows |-> ValuedRows(r, kind, LeafCount(c.parents)),
      columns |-> SubtotalledColumns(c),
      valueSources |-> ValueSources(nSources)] :
        r \in Shapes(MaxRowNodes), c \in Shapes(MaxColNodes),
        kind \in ValuesKinds, nSources \in 0..MaxValueSources}

(***************************************************************************)
(* Payload family of the sort targets: one row leaf under 0 to MaxLevels   *)
(* row levels; every column shape under up to MaxColNodes column levels    *)
(* that declare the level of its first leaf, the column nodes from some    *)
(* node on being subtotals, every second node naming a value source; one   *)
(* to MaxValueSources value sources.                                       *)
(***************************************************************************)
OneLeaf == [hasChildren |-> TRUE, parents |-> <<0>>]

SortedColumns(shape, firstSubtotal, nLevels, nSources) ==
    [ShapedTree("C", shape) EXCEPT
        !.levels = Levels("C", nLevels, MaxValueSources),
        !.isSubtotal = [i \in 1..Len(shape.parents) |-> i >= firstSubtotal],
        !.levelSourceIndex = [i \in 1..Len(shape.parents) |->
            IF i % 2 = 1 THEN Undef ELSE (i \div 2) % nSources]]

\* The first leaf below local node k, in children order.
RECURSIVE FirstLeaf(_, _)
FirstLeaf(parents, k) ==
    IF LocalChildren(parents, k) = <<>> THEN k
    ELSE FirstLeaf(parents, LocalChildren(parents, k)[1])

\* The numbers of column levels a shape can be delivered with: the level of
\* its first leaf is declared.
DeclaredLevelCounts(shape) ==
    {cl \in 0..MaxColNodes :
        Len(shape.parents) = 0
        \/ Depth(shape.parents, FirstLeaf(shape.parents, 0)) < cl}

SortedPayload(c, firstSubtotal, rl, cl, nSources) ==
    [rows |-> LevelledTree("R", OneLeaf, rl),
     columns |-> SortedColumns(c, firstSubtotal, cl, nSources),
     valueSources |-> ValueSources(nSources)]

SortPayloads ==
    UNION {{SortedPayload(c, firstSubtotal, rl, cl, nSources) :
                firstSubtotal \in 1..(Len(c.parents) + 1),
                rl \in 0..MaxLevels, cl \in DeclaredLevelCounts(c),
                nSources \in 1..MaxValueSources} :
            c \in Shapes(MaxColNodes)}

(***************************************************************************)
(* Payload family of the render cycle: one group of two rows over one      *)
(* column, the metadata with or without a segment and listing one of two   *)
(* sets of columns.                                                        *)
(***************************************************************************)
RenderRows == [hasChildren |-> TRUE, parents |-> <<0, 1, 1>>]

RenderPayloads ==
    {[rows |-> ShapedTree("R", RenderRows), columns |-> ShapedTree("C", OneLeaf),
      valueSources |-> ValueSources(1), metadata |-> Metadata(segment, columns)] :
        segment \in BOOLEAN, columns \in 0..1}

(***************************************************************************)
(* Payload family of the static headers: every column shape under one row, *)
(* nodes with and without identity, their value undefined, null or a       *)
(* number, the pattern shifted from payload to payload.                    *)
(***************************************************************************)
StaticTree(axis, shape, shift, sourceIndex) ==
    [ShapedTree(axis, shape) EXCEPT
        !.levels = Levels(axis, Height(shape.parents), MaxValueSources),
        !.levelSourceIndex = [i \in 1..Len(shape.parents) |->
                                IF i % 2 = 1 THEN Undef ELSE sourceIndex],
        !.identity = [i \in 1..Len(shape.parents) |-> (i + shift) % 4 >= 2],
        !.value = [i \in 1..Len(shape.parents) |->
                        IF (i + shift) % 4 \in {0, 2} THEN Undef
                        ELSE IF (i + shift) % 4 = 1 THEN Null ELSE i]]

StaticPayloads ==
    {[rows |-> StaticTree("R", OneLeaf, shift, sourceIndex),
      columns |-> StaticTree("C", c, shift, sourceIndex),
      valueSources |-> ValueSources(1)] :
        c \in Shapes(MaxColNodes), shift \in 0..3,
        sourceIndex \in 0..(MaxValueSources - 1)}

(***************************************************************************)
(* Collaborators the navigator is handed or calls (not part of matrix.ts). *)
(***************************************************************************)
\* valueFormatter.getFormatString(column, property): "" stands for none.
getFormatString(source) == source.format

\* The ICustomValueColumnFormatter: the column's format applied to the value.
formatter(value, source) ==
    IF value = Undef \/ value = Null THEN ""
    ELSE source.format \o ToString(value)

\* TablixUtils.isValidStatusGraphic(kpi, formattedValue).
isValidStatusGraphic(kpi, formattedValue) == formattedValue \in kpi

(***************************************************************************)
(* MatrixHierarchyNavigator: flattening.                                   *)
(* A flattening pass is threaded through a record st:                      *)
(*   nodes  the heap, cache  the leafNodes array being filled,             *)
(*   threw  whether a TypeError has ended the pass.                        *)
(***************************************************************************)
NoHierarchy == [root |-> Undef, levels |-> <<>>, leafNodes |-> <<>>]
NoMatrix ==
    [id |-> 0,
     rows |-> [root |-> Undef, levels |-> <<>>],
     columns |-> [root |-> Undef, levels |-> <<>>],
     valueSources |-> <<>>]

wrapMatrixHierarchy(hierarchy) ==
    [root |-> hierarchy.root, levels |-> hierarchy.levels, leafNodes |-> <<>>]

\* The index the code reads a level's sources at: levelSourceIndex, or 0.
SourceIndex(node) ==
    IF IsTruthy(node.levelSourceIndex) THEN node.levelSourceIndex ELSE 0

\* A numbering of the leaves that starts at one.
LeafIndexFromOne(cache) == Len(cache) + 1

\* The leaf index the loop body gives a leaf: the length of the cache.
NextLeafIndex(cache) == Len(cache)

\* A node has children to recurse into.
HasChildNodes(node) == node.hasChildren /\ Len(node.children) > 0

\* hierarchy.levels[node.level], unless the loop has cached a level already;
\* a level is named by its index in levels (Undef: undefined).
ResolveLevel(levels, level, node) ==
    IF level # Undef THEN level
    ELSE IF InRange(levels, node.level) THEN node.level
    ELSE Undef

\* if (parent) node.parent = parent
SetParent(node, parent) ==
    IF parent # Undef THEN [node EXCEPT !.parent = parent] ELSE node

\* A label formatted from the label the node has, not from its value.
ResolveFromLabel(node, source) ==
    [node EXCEPT
        !.name = IF getFormatString(source) # ""
                 THEN source.format \o @ ELSE @,
        !.queryName = source.queryName]

\* The label and query name a node takes from the source of its level.
Resolve(node, source) ==
    [node EXCEPT
        !.name = IF getFormatString(source) # ""
                 THEN formatter(node.value, source) ELSE @,
        !.queryName = source.queryName]

\* The loop body up to node.index = i, for the i-th node (1-based) of a
\* children array and the level lvl the loop holds.
Visited(levels, lvl, node, position) ==
    [(IF lvl = Undef THEN node
      ELSE Resolve(node, At(At(levels, lvl).sources, SourceIndex(node))))
     EXCEPT !.index = position - 1]

RECURSIVE updateRecursive(_, _, _, _)
RECURSIVE updateRecursiveFrom(_, _, _, _, _, _)

\* The end of the loop body: recurse into the children, or take the next
\* leaf index and join the cache.
Descend(levels, st, node) ==
    IF HasChildNodes(st.nodes[node])
    THEN updateRecursive(levels, st, st.nodes[node].children, node)
    ELSE [st EXCEPT !.nodes[node].leafIndex = NextLeafIndex(st.cache),
                    !.cache = Append(st.cache, node)]

\* The loop body for the i-th node, the level being lvl.
updateNode(levels, st, ns, parent, i, lvl) ==
    IF lvl # Undef
       /\ ~InRange(At(levels, lvl).sources, SourceIndex(st.nodes[ns[i]]))
    THEN \* source is undefined: source.queryName throws
         [st EXCEPT !.nodes[ns[i]] = SetParent(@, parent), !.threw = TRUE]
    ELSE updateRecursiveFrom(
            levels,
            Descend(levels,
                    [st EXCEPT !.nodes[ns[i]] =
                        Visited(levels, lvl, SetParent(@, parent), i)],
                    ns[i]),
            ns, parent, i + 1, lvl)

\* The loop of updateRecursive from its i-th node on; level is the level the
\* loop has cached so far.
updateRecursiveFrom(levels, st, ns, parent, i, level) ==
    IF st.threw \/ i > Len(ns) THEN st
    ELSE updateNode(levels, st, ns, parent, i,
                    ResolveLevel(levels, level, st.nodes[ns[i]]))

updateRecursive(levels, st, ns, parent) ==
    updateRecursiveFrom(levels, st, ns, parent, 1, Undef)

\* What a flattening pass st leaves of a hierarchy.
Flattened(hierarchy, st) ==
    [nodes |-> st.nodes,
     hierarchy |-> [hierarchy EXCEPT !.leafNodes = st.cache],
     threw |-> st.threw]

\* A leafNodes array that is not emptied before flattening.
KeptLeafNodes(hierarchy) == hierarchy.leafNodes

\* leafNodes after: if (leafNodes.length > 0) leafNodes.length = 0
EmptiedLeafNodes(hierarchy) == SubSeq(hierarchy.leafNodes, 1, 0)

\* updateHierarchy: empties leafNodes and flattens from root.children.
updateHierarchy(hierarchy, heap) ==
    Flattened(hierarchy,
        IF heap[hierarchy.root].hasChildren
        THEN updateRecursive(hierarchy.levels,
                             [nodes |-> heap,
                              cache |-> EmptiedLeafNodes(hierarchy),
                              threw |-> FALSE],
                             heap[hierarchy.root].children, Undef)
        ELSE [nodes |-> heap, cache |-> EmptiedLeafNodes(hierarchy),
              threw |-> FALSE])

\* A static leaf takes its label from its definition.
IsStaticLeaf(node) == ~node.identity /\ node.value = Undef

\* The loop of updateStaticColumnHeaders over the leaves.
StaticLabels(leaves, columnLeafSources, heap) ==
    [a \in DOMAIN heap |->
        IF a \in Range(leaves) /\ IsStaticLeaf(heap[a])
           /\ InRange(columnLeafSources, SourceIndex(heap[a]))
        THEN [heap[a] EXCEPT !.name =
                At(columnLeafSources, SourceIndex(heap[a])).displayName]
        ELSE heap[a]]

\* updateStaticColumnHeaders: labels of the static column leaves.
updateStaticColumnHeaders(columnHierarchy, heap) ==
    IF Len(columnHierarchy.leafNodes) = 0 THEN [nodes |-> heap, threw |-> FALSE]
    ELSE IF ~InRange(columnHierarchy.levels,
                     heap[columnHierarchy.leafNodes[1]].level)
    THEN \* levels[...] is undefined: reading .sources throws
         [nodes |-> heap, threw |-> TRUE]
    ELSE [nodes |->
            StaticLabels(columnHierarchy.leafNodes,
                         At(columnHierarchy.levels,
                            heap[columnHierarchy.leafNodes[1]].level).sources,
                         heap),
          threw |-> FALSE]

Outcome(n, heap, threw) == [nav |-> n, nodes |-> heap, threw |-> threw]

\* update, from the flattened column hierarchy c on.
updateStatic(n, c) ==
    IF c.threw
    THEN Outcome([n EXCEPT !.columnHierarchy = c.hierarchy], c.nodes, TRUE)
    ELSE Outcome([n EXCEPT !.columnHierarchy = c.hierarchy],
                 updateStaticColumnHeaders(c.hierarchy, c.nodes).nodes,
                 updateStaticColumnHeaders(c.hierarchy, c.nodes).threw)

\* update, from the flattened row hierarchy r on.
updateColumnAxis(n, r, updateColumns) ==
    IF r.threw \/ ~updateColumns
    THEN Outcome([n EXCEPT !.rowHierarchy = r.hierarchy], r.nodes, r.threw)
    ELSE updateStatic([n EXCEPT !.rowHierarchy = r.hierarchy],
                      updateHierarchy(n.columnHierarchy, r.nodes))

\* update, after the payload (if any) has been taken.
updateAxes(n, heap, updateColumns) ==
    updateColumnAxis(n, updateHierarchy(n.rowHierarchy, heap), updateColumns)

\* The column hierarchy wrapped whatever updateColumns says.
AlwaysWrapColumns(columnHierarchy, dataViewMatrix, updateColumns) == wrapMatrixHierarchy(dataViewMatrix.columns)

\* if (updateColumns) this.columnHierarchy = wrapMatrixHierarchy(columns).
TakeColumns(columnHierarchy, dataViewMatrix, updateColumns) ==
    IF updateColumns THEN wrapMatrixHierarchy(dataViewMatrix.columns)
    ELSE columnHierarchy

\* update(dataViewMatrix, updateColumns) on navigator fields n and heap;
\* hasMatrix says whether a dataViewMatrix was passed.
update(n, heap, hasMatrix, dataViewMatrix, updateColumns) ==
    updateAxes(
        IF ~hasMatrix THEN n
        ELSE [n EXCEPT
                !.matrix = dataViewMatrix,
                !.rowHierarchy = wrapMatrixHierarchy(dataViewMatrix.rows),
                !.columnHierarchy =
                    TakeColumns(@, dataViewMatrix, updateColumns)],
        heap, updateColumns)

\* The constructor: the fields are set, then update() is called.
construct(heap, matrix) ==
    update([constructed |-> TRUE,
            matrix |-> matrix,
            rowHierarchy |-> wrapMatrixHierarchy(matrix.rows),
            columnHierarchy |-> wrapMatrixHierarchy(matrix.columns)],
           heap, FALSE, NoMatrix, TRUE)

(***************************************************************************)
(* MatrixHierarchyNavigator: queries.                                      *)
(***************************************************************************)
\* The number of declared column levels, without the floor of 1.
DeclaredColumnLevels(n) == Len(n.columnHierarchy.levels)


getColumnHierarchyDepth(n) == Max(Len(n.columnHierarchy.levels), 1)
getRowHierarchyDepth(n) == Max(Len(n.rowHierarchy.levels), 1)

\* An array is the children array of the node that owns it; ChildrenOf is
\* the reference a caller holds (Undef: the node has no children property).
ChildrenOf(heap, a) == IF heap[a].hasChildren THEN a ELSE Undef

\* getMatrixHierarchy(rootNodes): "row", "column" or "none" (null).
getMatrixHierarchy(n, heap, rootNodes) ==
    IF ChildrenOf(heap, n.rowHierarchy.root) # Undef
       /\ rootNodes = ChildrenOf(heap, n.rowHierarchy.root)
    THEN "row"
    ELSE IF ChildrenOf(heap, n.columnHierarchy.root) # Undef
            /\ rootNodes = ChildrenOf(heap, n.columnHierarchy.root)
    THEN "column"
    ELSE "none"

MatrixHierarchyOf(n, which) ==
    IF which = "row" THEN n.rowHierarchy ELSE n.columnHierarchy

getLeafCount(n, heap, hierarchy) ==
    LET which == getMatrixHierarchy(n, heap, hierarchy)
    IN  IF which # "none" THEN Len(MatrixHierarchyOf(n, which).leafNodes) ELSE 0

\* getLeafAt: Null when the array is no hierarchy's, Undef beyond the leaves.
getLeafAt(n, heap, hierarchy, index) ==
    LET which == getMatrixHierarchy(n, heap, hierarchy)
    IN  IF which = "none" THEN Null
        ELSE IF InRange(MatrixHierarchyOf(n, which).leafNodes, index)
        THEN At(MatrixHierarchyOf(n, which).leafNodes, index)
        ELSE Undef

getLeafIndex(heap, item) == heap[item].leafIndex
getIndex(heap, item) == heap[item].index
isLeaf(heap, item) == ~heap[item].hasChildren \/ Len(heap[item].children) = 0

(***************************************************************************)
(* MatrixHierarchyNavigator: body cells and corner cells.                  *)
(***************************************************************************)
\* An undefined DataViewMatrixNodeValue.
NoDataPoint == [defined |-> FALSE, value |-> Undef, valueSourceIndex |-> Undef]

BodyItem(dataPoint, textContent, domContent, isSubtotal, isLeftMost) ==
    [threw |-> FALSE, dataPoint |-> dataPoint, textContent |-> textContent,
     domContent |-> domContent, isSubtotal |-> isSubtotal,
     isLeftMost |-> isLeftMost]

\* No item: the call ended in a TypeError.
BodyItemThrown ==
    [threw |-> TRUE, dataPoint |-> NoDataPoint, textContent |-> UndefStr,
     domContent |-> UndefStr, isSubtotal |-> FALSE, isLeftMost |-> FALSE]

\* TablixUtils.createKpiDom(kpi, value): the status graphic shown for value.
createKpiDom(kpi, value) == "kpi" \o ToString(value)

\* The column is the first leaf of the column hierarchy.
IsFirstLeaf(column) == column.leafIndex = 0

\* isLeftMost as getIntersection computes it.
IsLeftMost(column) == column.index = 0

\* The slot of rowItem.values that getIntersection reads for a column item.
IntersectionSlot(column) == column.leafIndex

\* intersection.valueSourceIndex || 0
ValueSourceIndex(intersection) ==
    IF IsTruthy(intersection.valueSourceIndex)
    THEN intersection.valueSourceIndex ELSE 0

\* The item for a stored intersection whose value source is valueSource.
FormattedItem(intersection, valueSource, formattedValue, isSubtotalItem, isLeftMost) ==
    IF isValidStatusGraphic(valueSource.kpi, formattedValue)
    THEN BodyItem(intersection, UndefStr,
                  createKpiDom(valueSource.kpi, intersection.value),
                  isSubtotalItem, isLeftMost)
    ELSE BodyItem(intersection, formattedValue, UndefStr, isSubtotalItem,
                  isLeftMost)

\* getIntersection from the stored intersection on.
StoredItem(valueSources, intersection, isSubtotalItem, isLeftMost) ==
    IF ~InRange(valueSources, ValueSourceIndex(intersection))
    THEN \* valueSource is undefined: valueSource.kpi throws
         BodyItemThrown
    ELSE FormattedItem(
            intersection,
            At(valueSources, ValueSourceIndex(intersection)),
            formatter(intersection.value,
                      At(valueSources, ValueSourceIndex(intersection))),
            isSubtotalItem, isLeftMost)

\* isSubtotalItem as getIntersection computes it.
IsSubtotalItem(row, column) == row.isSubtotal \/ column.isSubtotal

\* A lookup that treats a row without values as a row without a value at
\* the column.
IntersectWithoutLoadingCell(valueSources, row, column) ==
    IF IntersectionSlot(column) \notin DOMAIN row.values
    THEN BodyItem(NoDataPoint, UndefStr, UndefStr, IsSubtotalItem(row, column),
                  IsLeftMost(column))
    ELSE StoredItem(valueSources, row.values[IntersectionSlot(column)],
                    IsSubtotalItem(row, column), IsLeftMost(column))

\* getIntersection on the row node and the column node.
Intersect(valueSources, row, column) ==
    IF ~row.hasValues
    THEN BodyItem(NoDataPoint, "", UndefStr, IsSubtotalItem(row, column),
                  IsLeftMost(column))
    ELSE IF IntersectionSlot(column) \notin DOMAIN row.values
    THEN BodyItem(NoDataPoint, UndefStr, UndefStr, IsSubtotalItem(row, column),
                  IsLeftMost(column))
    ELSE StoredItem(valueSources, row.values[IntersectionSlot(column)],
                    IsSubtotalItem(row, column), IsLeftMost(column))

getIntersection(n, heap, rowItem, columnItem) ==
    Intersect(n.matrix.valueSources, heap[rowItem], heap[columnItem])

\* metadata: null of the empty corner.
NullColumn == Column("<null>", "<null>", "", NoKpi)

CornerItem(metadata, isColumnHeaderLeaf, isRowHeaderLeaf) ==
    [metadata |-> metadata, isColumnHeaderLeaf |-> isColumnHeaderLeaf,
     isRowHeaderLeaf |-> isRowHeaderLeaf]

FirstSource(level) ==
    IF InRange(level.sources, 0) THEN At(level.sources, 0) ELSE NoColumn

\* The last column level only, a column hierarchy without levels excluded.
LastColumnLevelOnly(columnLevels, columnLevel) ==
    columnLevel = Len(columnLevels) - 1

\* The condition under which getCorner looks the row level up first.
RowOwnsCorner(columnLevels, columnLevel) ==
    columnLevel = Len(columnLevels) - 1 \/ Len(columnLevels) = 0

\* The level after the last row level.
PastLastRowLevel(rowLevels, rowLevel) == rowLevel = Len(rowLevels)

\* The condition under which getCorner looks the column level up.
ColumnOwnsCorner(rowLevels, rowLevel) == rowLevel = Len(rowLevels) - 1

\* The three items getCorner returns.
RowOwnedCorner(rowLevels, rowLevel) ==
    CornerItem(FirstSource(At(rowLevels, rowLevel)), TRUE,
               rowLevel = Len(rowLevels) - 1)

\* A column-owned corner flagged as a column header leaf.
ColumnOwnedLeafCorner(columnLevels, columnLevel) ==
    CornerItem(FirstSource(At(columnLevels, columnLevel)), TRUE, TRUE)


ColumnOwnedCorner(columnLevels, columnLevel) ==
    CornerItem(FirstSource(At(columnLevels, columnLevel)), FALSE, TRUE)

EmptyCorner == CornerItem(NullColumn, FALSE, FALSE)

Corner(rowLevels, columnLevels, rowLevel, columnLevel) ==
    IF RowOwnsCorner(columnLevels, columnLevel) /\ InRange(rowLevels, rowLevel)
    THEN RowOwnedCorner(rowLevels, rowLevel)
    ELSE IF ColumnOwnsCorner(rowLevels, rowLevel)
            /\ InRange(columnLevels, columnLevel)
    THEN ColumnOwnedCorner(columnLevels, columnLevel)
    ELSE EmptyCorner

getCorner(n, rowLevel, columnLevel) ==
    Corner(n.rowHierarchy.levels, n.columnHierarchy.levels, rowLevel, columnLevel)

(***************************************************************************)
(* MatrixBinder: sort targets.                                             *)
(***************************************************************************)
\* The valueIndex of a header that is not sortable (-1 in the code; Undef
\* stands for undefined here).
NoValueIndex == 0 - 3

\* Sorting is supported whatever the row hierarchy declares.
AlwaysRowGroups(matrix) == TRUE

\* dataView.rows.levels.length is not 0
HasRowGroups(matrix) == Len(matrix.rows.levels) # 0

\* The measures establish a level as well.
columnGroupCount(matrix) == Len(matrix.columns.levels) - 1

isMultiMeasure(matrix) == Len(matrix.valueSources) > 1

\* The level of the item itself decides, whatever the number of measures.
IsLevelZero(matrix, heap, item) == item.level = 0

\* The test for the column grand total among the subtotals.
IsGrandTotal(matrix, heap, item) ==
    IF isMultiMeasure(matrix)
    THEN item.parent # Undef /\ heap[item.parent].level = 0
    ELSE item.level = 0

\* Every node of a matrix without column groups but the subtotals.
AllButSubtotals(matrix, heap, item) ==
    IF columnGroupCount(matrix) = 0 /\ ~item.isSubtotal THEN item.levelSourceIndex
    ELSE NoValueIndex

ValueIndex(matrix, heap, item) ==
    IF columnGroupCount(matrix) = 0 THEN item.levelSourceIndex
    ELSE IF item.isSubtotal /\ IsGrandTotal(matrix, heap, item)
    THEN item.levelSourceIndex
    ELSE NoValueIndex

\* valueIndex ? valueIndex : 0
DefaultedIndex(valueIndex) == IF IsTruthy(valueIndex) THEN valueIndex ELSE 0

\* dataView.valueSources[valueIndex], or null for a header not sortable.
SortTarget(valueSources, valueIndex) ==
    IF valueIndex = NoValueIndex THEN NullColumn
    ELSE IF InRange(valueSources, DefaultedIndex(valueIndex))
    THEN At(valueSources, DefaultedIndex(valueIndex))
    ELSE NoColumn

getSortableHeaderColumnMetadata(n, heap, item) ==
    IF ~HasRowGroups(n.matrix) THEN NullColumn
    ELSE SortTarget(n.matrix.valueSources, ValueIndex(n.matrix, heap, heap[item]))

\* The metadata of the corner, whatever its flags.
CornerMetadata(item) == item.metadata

getSortableCornerColumnMetadata(item) ==
    IF ~item.isColumnHeaderLeaf THEN NullColumn ELSE item.metadata

\* if (sortableHeaderColumnMetadata): the binder registers a click handler.
IsSortTarget(metadata) == metadata # NullColumn /\ metadata # NoColumn

(***************************************************************************)
(* Matrix: onDataChanged.  A call is threaded through a record             *)
(*   visual  the Matrix fields, nav  the navigator, nodes  the heap,       *)
(*   threw   whether a TypeError has ended the call.                       *)
(***************************************************************************)
VisualOutcome(v, n, heap, threw) == [visual |-> v, nav |-> n, nodes |-> heap, threw |-> threw]

\* tablixControl.updateModels(reset, rows.root.children,
\* columns.root.children): the models are the children arrays.
updateModels(v, heap, matrix) ==
    [v EXCEPT !.rowModel = ChildrenOf(heap, matrix.rows.root),
              !.columnModel = ChildrenOf(heap, matrix.columns.root),
              !.updatedModels = TRUE,
              !.effects = @ \cup {"updateModels"}]

\* A call the handler makes on a collaborator (the control, the column
\* width manager, the host) is recorded in effects.
Effect(v, call) == [v EXCEPT !.effects = @ \cup {call}]

\* refreshControl(clear): tablixControl.refresh(clear).
refreshControl(v, clear) == Effect(v, IF clear THEN "refresh:clear" ELSE "refresh:keep")

\* DataViewAnalysis.isMetadataEquivalent(previous, new).
isMetadataEquivalent(previousMetadata, newMetadata) == previousMetadata.columns = newMetadata.columns

\* shouldClearControl(previousDataView, newDataView), the visual being v
\* and previous the fields before the call.
shouldClearControl(v, previous) ==
    IF ~v.waitingForSort \/ previous.dataView = NoMatrix THEN TRUE
    ELSE ~isMetadataEquivalent(previous.metadata, v.metadata)

\* createColumnWidthManager: created once; later updated with the data
\* view unless the data view comes from persisting.
createColumnWidthManager(v) ==
    IF ~v.columnWidthManager THEN [v EXCEPT !.columnWidthManager = TRUE]
    ELSE IF ~v.persistingObjects THEN Effect(v, "updateDataView")
    ELSE v

\* setTimeout(() => ..., 0): the deferred render joins the timers, with
\* the shouldClearControl it has captured; afterPersist records whether
\* its data change is the one that answers a persistColumnWidths.
setTimeout(v, shouldClear) ==
    [v EXCEPT !.timers = Append(@, [delivery |-> v.dataView.id,
                                    shouldClear |-> shouldClear,
                                    afterPersist |-> v.persistPending]),
              !.persistPending = FALSE]

\* updateInternal: the models are replaced (the scroll offsets reset
\* unless objects are being persisted) and the render is deferred.
updateInternal(v, heap, matrix, previous) ==
    setTimeout(updateModels(IF ~v.persistingObjects
                            THEN Effect(v, "resetScrollOffsets") ELSE v,
                            heap, matrix),
               shouldClearControl(v, previous))

\* An onDataChanged that ends without resetting waitingForSort.
ResetWaitingForDataOnly(r) ==
    IF r.threw THEN r
    ELSE [r EXCEPT !.visual.waitingForData = FALSE]

\* previousDataView.matrix.rows.root !== this.dataView.matrix.rows.root
rootChanged(previousDataView, dataView) == previousDataView.rows.root # dataView.rows.root

\* The Append branch from the navigator's update, with result r, on.
appendModels(v, r, changed) ==
    IF r.threw THEN VisualOutcome(v, r.nav, r.nodes, TRUE)
    ELSE VisualOutcome(refreshControl(IF changed
                                      THEN updateModels(v, r.nodes, r.nav.matrix)
                                      ELSE v,
                                      FALSE),
                       r.nav, r.nodes, FALSE)

\* The Append branch: reading previousDataView.matrix of no data view, or
\* update of no navigator, is a TypeError.
onAppend(v, n, heap, previousDataView, matrix) ==
    IF previousDataView = NoMatrix \/ ~n.constructed
    THEN VisualOutcome(v, n, heap, TRUE)
    ELSE appendModels(v, update(n, heap, TRUE, matrix,
                                rootChanged(previousDataView, matrix)),
                      rootChanged(previousDataView, matrix))

\* createOrUpdateHierarchyNavigator: a navigator is created while there is
\* no tablix control, and updated (both axes) afterwards.
createOrUpdateHierarchyNavigator(v, n, heap, matrix) ==
    IF ~v.tablixControl THEN construct(heap, matrix)
    ELSE update(n, heap, TRUE, matrix, TRUE)

\* The other branch from createOrUpdateHierarchyNavigator, with result r,
\* on: createColumnWidthManager, createTablixControl, updateInternal;
\* previous is the visual before the call.
\* A constructor that throws leaves the field hierarchyNavigator as it was.
createModels(v, n, r, previous) ==
    IF r.threw
    THEN VisualOutcome(v, IF v.tablixControl THEN r.nav ELSE n, r.nodes, TRUE)
    ELSE VisualOutcome(updateInternal([createColumnWidthManager(v)
                                         EXCEPT !.tablixControl = TRUE],
                                      r.nodes, r.nav.matrix, previous),
                       r.nav, r.nodes, FALSE)

\* The end of onDataChanged, which a call that throws does not reach.
resetWaiting(r) ==
    IF r.threw THEN r
    ELSE [r EXCEPT !.visual.waitingForData = FALSE,
                   !.visual.waitingForSort = FALSE]

\* The visual v as this.dataView = dataViews[0] leaves it; the record of
\* the calls made starts anew.
assignDataView(v, matrix, metadata) ==
    [v EXCEPT !.dataView = matrix, !.metadata = metadata,
              !.updatedModels = FALSE, !.effects = {},
              !.loadMoreRequests = 0, !.sortClicked = FALSE]

\* onDataChanged(options) with options.dataViews[0] = {matrix, metadata}
\* and options.operationKind = kind; this.dataView is assigned first.
onDataChanged(v, n, heap, kind, matrix, metadata) ==
    resetWaiting(
        IF kind = "Append"
        THEN onAppend(assignDataView(v, matrix, metadata),
                      n, heap, v.dataView, matrix)
        ELSE createModels(assignDataView(v, matrix, metadata), n,
                          createOrUpdateHierarchyNavigator(v, n, heap, matrix),
                          v))

(***************************************************************************)
(* Matrix: the deferred render and the callbacks of the control.           *)
(***************************************************************************)
\* persistColumnWidths(objectInstances), the callback the column width
\* manager persists with.
persistColumnWidths(v) == Effect([v EXCEPT !.persistingObjects = TRUE, !.persistPending = TRUE], "persistProperties")

\* The deferred render after refreshControl: a render that finds
\* persistingObjects raised resets it and returns; otherwise all column
\* widths are persisted if the column width manager asks for it.
afterRefresh(v, shouldPersistAllColumnWidths) ==
    IF v.persistingObjects THEN [v EXCEPT !.persistingObjects = FALSE]
    ELSE IF shouldPersistAllColumnWidths
    THEN persistColumnWidths(Effect(v, "persistAllColumnWidths"))
    ELSE v

\* The callback of setTimeout in updateInternal, for the oldest timer.
deferredRender(v, shouldPersistAllColumnWidths) ==
    afterRefresh(refreshControl([v EXCEPT !.timers = Tail(@), !.effects = {}],
                                Head(v.timers).shouldClear),
                 shouldPersistAllColumnWidths)

\* Matrix.preferredLoadMoreThreshold (0.8), in tenths.
preferredLoadMoreThreshold == 8

\* tablixControl.rowDimension.getItemsCount(): the items of the row model.
getItemsCount(v, heap) == IF v.rowModel = Undef THEN 0 ELSE Len(heap[v.rowModel].children)

\* A test for more data that does not look at waitingForData.
NeedsMoreDataWhileWaiting(v, heap, item) ==
    /\ isLeaf(heap, item)
    /\ v.metadata.segment
    /\ 10 * getLeafIndex(heap, item) >= preferredLoadMoreThreshold * getItemsCount(v, heap)

\* needsMoreData(item)
needsMoreData(v, heap, item) ==
    /\ ~v.waitingForData
    /\ isLeaf(heap, item)
    /\ v.metadata.segment
    /\ 10 * getLeafIndex(heap, item) >= preferredLoadMoreThreshold * getItemsCount(v, heap)

\* onBindRowHeader(item)
onBindRowHeader(v, heap, item) ==
    IF needsMoreData(v, heap, item)
    THEN [Effect(v, "loadMoreData") EXCEPT !.waitingForData = TRUE,
                                           !.loadMoreRequests = @ + 1]
    ELSE v

\* onColumnHeaderClick(queryName, sortDirection)
onColumnHeaderClick(v) == Effect([v EXCEPT !.waitingForSort = TRUE, !.sortClicked = TRUE], "onCustomSort")

\* The cells with the cell of item, its click handler being handler.
WithCell(cells, item, handler) ==
    [a \in DOMAIN cells \cup {item} |-> IF a = item THEN handler ELSE cells[a]]

\* The cells without the cell of item.
WithoutCell(cells, item) == [a \in DOMAIN cells \ {item} |-> cells[a]]

\* registerColumnHeaderClickHandler(columnMetadata, cell): the Matrix
\* visual always passes options.onColumnHeaderClick.
registerColumnHeaderClickHandler(cells, item) == WithCell(cells, item, TRUE)

\* unregisterColumnHeaderClickHandler(cell)
unregisterColumnHeaderClickHandler(cells, item) == WithCell(cells, item, FALSE)

\* bindColumnHeader(item, cell) on a cell that has no click handler: only
\* a leaf is tested for a sort target.
bindColumnHeader(n, heap, cells, item) ==
    IF isLeaf(heap, item) /\ IsSortTarget(getSortableHeaderColumnMetadata(n, heap, item))
    THEN registerColumnHeaderClickHandler(cells, item)
    ELSE WithCell(cells, item, FALSE)

\* Whether unbindColumnHeader(item, cell) unregisters the click handler:
\* every item is tested for a sort target.
unbindUnregisters(n, heap, item) == IsSortTarget(getSortableHeaderColumnMetadata(n, heap, item))

\* unbindColumnHeader(item, cell): the cell goes back to the control.
unbindColumnHeader(n, heap, cells, item) ==
    WithoutCell(IF unbindUnregisters(n, heap, item)
                THEN unregisterColumnHeaderClickHandler(cells, item)
                ELSE cells,
                item)

(***************************************************************************)
(* The state machine: a caller creates a navigator on a payload, updates   *)
(* it and queries it.                                                      *)
(***************************************************************************)
NoNav ==
    [constructed |-> FALSE, matrix |-> NoMatrix,
     rowHierarchy |-> NoHierarchy, columnHierarchy |-> NoHierarchy]

NoResult == [none |-> TRUE]

Call(op, threw, args, result) ==
    [op |-> op, threw |-> threw, args |-> args, result |-> result]

\* The roots the navigator holds a reference to, and those of the payloads
\* the caller passed in the call (args of a create or an update).
Roots(n, call) ==
    (IF ~n.constructed THEN {}
     ELSE {n.matrix.rows.root, n.matrix.columns.root,
           n.rowHierarchy.root, n.columnHierarchy.root})
    \cup {RowBase(call.args[i]) : i \in 1..Len(call.args)}
    \cup {ColBase(call.args[i]) : i \in 1..Len(call.args)}

\* The heap without the trees nothing refers to any more.
Collect(n, heap, call) ==
    [a \in {b \in DOMAIN heap : BlockOf(b) \in Roots(n, call)} |-> heap[a]]

\* The nodes below the root of the tree at root address r.
NodesBelow(heap, r) == {a \in DOMAIN heap : BlockOf(a) = r /\ a # r}

\* The Matrix visual after init(): no data view, no control, no models.
\* timers are the deferred renders pending, effects the calls the last
\* handler made on its collaborators, loadMoreRequests the calls of
\* hostServices.loadMoreData since the last onDataChanged, persistPending
\* whether persistColumnWidths has been called and the data change that
\* answers it (the next one not an Append) is still to come, sortClicked
\* whether a column header has been clicked since the last onDataChanged,
\* columnCells the column headers bound to a cell of the control, each
\* with whether its cell has a click handler registered.
NoVisual ==
    [dataView |-> NoMatrix, tablixControl |-> FALSE,
     rowModel |-> Undef, columnModel |-> Undef, updatedModels |-> FALSE,
     metadata |-> NoMetadata, columnWidthManager |-> FALSE,
     waitingForData |-> FALSE, waitingForSort |-> FALSE,
     persistingObjects |-> FALSE, timers |-> <<>>, effects |-> {},
     loadMoreRequests |-> 0, persistPending |-> FALSE,
     sortClicked |-> FALSE, columnCells |-> <<>>]

Init ==
    /\ nodes = <<>>
    /\ nav = NoNav
    /\ allocated = 0
    /\ ret = Call("none", FALSE, <<>>, NoResult)
    /\ visual = NoVisual

\* The state a call leaves: the navigator n, the heap, k payloads built.
Return(n, heap, k, call) ==
    /\ nav' = n
    /\ nodes' = Collect(n, heap, call)
    /\ allocated' = k
    /\ ret' = call
    /\ UNCHANGED visual

\* A constructor that throws leaves the caller without a navigator.
Created(r, k) ==
    Return(IF r.threw THEN nav ELSE r.nav, r.nodes, k,
           Call("create", r.threw, <<k>>, NoResult))

Updated(r, k, op, args) == Return(r.nav, r.nodes, k, Call(op, r.threw, args, NoResult))

\* createMatrixHierarchyNavigator(matrix, formatter) on a new payload p.
Create(p) ==
    /\ ~nav.constructed
    /\ allocated < MaxPayloads
    /\ Created(construct(Deliver(nodes, p, allocated + 1),
                         BuildMatrix(p, allocated + 1)),
               allocated + 1)

\* update(dataViewMatrix, updateColumns) with a new payload p.
Update(p, updateColumns) ==
    /\ nav.constructed
    /\ allocated < MaxPayloads
    /\ Updated(update(nav, Deliver(nodes, p, allocated + 1), TRUE,
                      BuildMatrix(p, allocated + 1), updateColumns),
               allocated + 1, "update", <<allocated + 1>>)

\* update(undefined, updateColumns): flatten the current payload again.
UpdateNoPayload(updateColumns) ==
    /\ nav.constructed
    /\ Updated(update(nav, nodes, FALSE, NoMatrix, updateColumns),
               allocated, "updateAgain", <<>>)

GetIntersection(rowItem, columnItem) ==
    /\ nav.constructed
    /\ rowItem \in NodesBelow(nodes, nav.rowHierarchy.root)
    /\ columnItem \in NodesBelow(nodes, nav.columnHierarchy.root)
    /\ ret' = Call("getIntersection",
                   getIntersection(nav, nodes, rowItem, columnItem).threw,
                   <<rowItem, columnItem>>,
                   getIntersection(nav, nodes, rowItem, columnItem))
    /\ UNCHANGED <<nodes, nav, allocated, visual>>

GetCorner(rowLevel, columnLevel) ==
    /\ nav.constructed
    /\ ret' = Call("getCorner", FALSE, <<rowLevel, columnLevel>>,
                   getCorner(nav, rowLevel, columnLevel))
    /\ UNCHANGED <<nodes, nav, allocated, visual>>

GetRowHierarchyDepth ==
    /\ nav.constructed
    /\ ret' = Call("getRowHierarchyDepth", FALSE, <<>>,
                   [depth |-> getRowHierarchyDepth(nav)])
    /\ UNCHANGED <<nodes, nav, allocated, visual>>

GetColumnHierarchyDepth ==
    /\ nav.constructed
    /\ ret' = Call("getColumnHierarchyDepth", FALSE, <<>>,
                   [depth |-> getColumnHierarchyDepth(nav)])
    /\ UNCHANGED <<nodes, nav, allocated, visual>>

GetSortableHeaderColumnMetadata(item) ==
    /\ nav.constructed
    /\ item \in NodesBelow(nodes, nav.columnHierarchy.root)
    /\ ret' = Call("getSortableHeaderColumnMetadata", FALSE, <<item>>,
                   [metadata |-> getSortableHeaderColumnMetadata(nav, nodes, item)])
    /\ UNCHANGED <<nodes, nav, allocated, visual>>

\* The sort target of the corner item that getCorner returns.
GetSortableCornerColumnMetadata(rowLevel, columnLevel) ==
    /\ nav.constructed
    /\ ret' = Call("getSortableCornerColumnMetadata", FALSE,
                   <<rowLevel, columnLevel>>,
                   [item |-> getCorner(nav, rowLevel, columnLevel),
                    metadata |-> getSortableCornerColumnMetadata(
                                    getCorner(nav, rowLevel, columnLevel))])
    /\ UNCHANGED <<nodes, nav, allocated, visual>>

\* VisualDataChangeOperationKind.
OperationKinds == {"Create", "Append"}

\* The roots the visual, its navigator and the running call refer to.
VisualRoots(n, previousDataView, r) ==
    {n.rowHierarchy.root, n.columnHierarchy.root,
     r.nav.rowHierarchy.root, r.nav.columnHierarchy.root,
     previousDataView.rows.root, previousDataView.columns.root,
     r.visual.dataView.rows.root, r.visual.dataView.columns.root}

\* The state onDataChanged leaves; the data view before it lives as long
\* as the call.
Delivered(r, previousDataView, k, kind) ==
    /\ visual' = r.visual
    /\ nav' = r.nav
    /\ nodes' = [a \in {b \in DOMAIN r.nodes :
                          BlockOf(b) \in VisualRoots(nav, previousDataView, r)}
                    |-> r.nodes[a]]
    /\ allocated' = k
    /\ ret' = Call("onDataChanged:" \o kind, r.threw, <<k>>, NoResult)

\* The host delivers a data view built on a new payload p.
OnDataChanged(kind, p) ==
    /\ allocated < MaxPayloads
    /\ Delivered(onDataChanged(visual, nav, Deliver(nodes, p, allocated + 1),
                               kind, BuildMatrix(p, allocated + 1), p.metadata),
                 visual.dataView, allocated + 1, kind)

\* The host delivers a data view merged into the one before: the same row
\* and column roots, one more row.
OnDataMerged(kind) ==
    /\ allocated < MaxPayloads
    /\ visual.dataView # NoMatrix
    /\ FreeAddress(nodes, visual.dataView.rows.root) < visual.dataView.rows.root + Stride
    /\ Delivered(onDataChanged(visual, nav,
                               AppendRow(nodes, visual.dataView.rows.root,
                                         FreeAddress(nodes, visual.dataView.rows.root)),
                               kind,
                               MergedMatrix(visual.dataView, allocated + 1),
                               visual.metadata),
                 visual.dataView, allocated + 1, kind)

\* The host delivers a data view merged into the one before: the same
\* roots, the last row of the first level continued by one more child.
OnDataGrown(kind) ==
    /\ allocated < MaxPayloads
    /\ visual.dataView # NoMatrix
    /\ HasChildNodes(nodes[visual.dataView.rows.root])
    /\ FreeAddress(nodes, visual.dataView.rows.root) < visual.dataView.rows.root + Stride
    /\ Delivered(onDataChanged(visual, nav,
                               GrowRow(nodes,
                                       LastChild(nodes, visual.dataView.rows.root),
                                       FreeAddress(nodes, visual.dataView.rows.root)),
                               kind,
                               GrownMatrix(visual.dataView, allocated + 1),
                               visual.metadata),
                 visual.dataView, allocated + 1, kind)

\* A callback of the visual: the fields change, the navigator and the heap
\* do not.
CalledBack(v, op, args) ==
    /\ visual' = v
    /\ ret' = Call(op, FALSE, args, NoResult)
    /\ UNCHANGED <<nodes, nav, allocated>>

\* The oldest deferred render runs; the column width manager says whether
\* all column widths are to be persisted.
RunDeferredRender(shouldPersistAllColumnWidths) ==
    /\ Len(visual.timers) > 0
    /\ CalledBack(deferredRender(visual, shouldPersistAllColumnWidths),
                  "deferredRender", <<Head(visual.timers).delivery>>)

\* The user resizes a column: the column width manager persists the width.
PersistColumnWidths ==
    /\ visual.columnWidthManager
    /\ CalledBack(persistColumnWidths([visual EXCEPT !.effects = {}]),
                  "persistColumnWidths", <<>>)

\* The user clicks a column header that has a click handler.
OnColumnHeaderClick(item) ==
    /\ visual.tablixControl
    /\ nav.constructed
    /\ item \in Range(nav.columnHierarchy.leafNodes)
    /\ IsSortTarget(getSortableHeaderColumnMetadata(nav, nodes, item))
    /\ CalledBack(onColumnHeaderClick([visual EXCEPT !.effects = {}]),
                  "onColumnHeaderClick", <<item>>)

\* The control binds the row header of item.
OnBindRowHeader(item) ==
    /\ visual.tablixControl
    /\ nav.constructed
    /\ item \in NodesBelow(nodes, nav.rowHierarchy.root)
    /\ CalledBack(onBindRowHeader([visual EXCEPT !.effects = {}], nodes, item),
                  "onBindRowHeader", <<item>>)

\* The control binds the column header of item to a cell.
BindColumnHeader(item) ==
    /\ nav.constructed
    /\ item \in NodesBelow(nodes, nav.columnHierarchy.root)
    /\ item \notin DOMAIN visual.columnCells
    /\ visual' = [visual EXCEPT !.columnCells = bindColumnHeader(nav, nodes, @, item)]
    /\ ret' = Call("bindColumnHeader", FALSE, <<item>>,
                   [registered |-> bindColumnHeader(nav, nodes, visual.columnCells, item)[item]])
    /\ UNCHANGED <<nodes, nav, allocated>>

\* The control unbinds the column header of item from its cell.
UnbindColumnHeader(item) ==
    /\ nav.constructed
    /\ item \in DOMAIN visual.columnCells
    /\ visual' = [visual EXCEPT !.columnCells = unbindColumnHeader(nav, nodes, @, item)]
    /\ ret' = Call("unbindColumnHeader", FALSE, <<item>>,
                   [unregistered |-> unbindUnregisters(nav, nodes, item)])
    /\ UNCHANGED <<nodes, nav, allocated>>

\* The host delivers a data view whose transform has rewritten the column
\* root: the rows root of the one before, a new column tree of shape c.
OnDataRecolumned(kind, c) ==
    /\ allocated < MaxPayloads
    /\ visual.dataView # NoMatrix
    /\ Delivered(onDataChanged(visual, nav,
                               DeliverColumns(nodes, ShapedTree("C", c), allocated + 1),
                               kind,
                               RecolumnedMatrix(visual.dataView, ShapedTree("C", c),
                                                allocated + 1),
                               visual.metadata),
                 visual.dataView, allocated + 1, kind)

\* The update protocol.
Next ==
    \/ \E p \in ShapedPayloads : Create(p)
    \/ \E p \in UpdatePayloads, updateColumns \in BOOLEAN : Update(p, updateColumns)
    \/ \E updateColumns \in BOOLEAN : UpdateNoPayload(updateColumns)

Spec == Init /\ [][Next]_vars

\* Body cells of a navigator created on a payload with values.
NextIntersection ==
    \/ \E p \in ValuedPayloads : Create(p)
    \/ \E rowItem \in DOMAIN nodes, columnItem \in DOMAIN nodes :
            GetIntersection(rowItem, columnItem)

SpecIntersection == Init /\ [][NextIntersection]_vars

\* Corner cells and hierarchy depths of a navigator created on a payload
\* with any number of declared levels.
NextCorner ==
    \/ \E p \in LevelledPayloads : Create(p)
    \/ \E rowLevel \in 0..MaxLevels, columnLevel \in 0..MaxLevels :
            GetCorner(rowLevel, columnLevel)
    \/ GetRowHierarchyDepth
    \/ GetColumnHierarchyDepth

SpecCorner == Init /\ [][NextCorner]_vars

\* Sort targets of the column headers and the corner cells.
NextSort ==
    \/ \E p \in SortPayloads : Create(p)
    \/ \E item \in DOMAIN nodes : GetSortableHeaderColumnMetadata(item)
    \/ \E rowLevel \in 0..MaxLevels, columnLevel \in 0..MaxLevels :
            GetSortableCornerColumnMetadata(rowLevel, columnLevel)

SpecSort == Init /\ [][NextSort]_vars

\* The Matrix visual: the host delivers data views, new or merged, each
\* marked with an operation kind.
NextVisual ==
    \/ \E kind \in OperationKinds, p \in VisualPayloads : OnDataChanged(kind, p)
    \/ \E kind \in OperationKinds : OnDataMerged(kind)

\* The level metadata: one navigator is created on a payload, and flattens
\* it again.
NextMetadata ==
    \/ \E p \in MetadataPayloads : allocated = 0 /\ Create(p)
    \/ \E updateColumns \in BOOLEAN : UpdateNoPayload(updateColumns)

SpecMetadata == Init /\ [][NextMetadata]_vars

SpecVisual == Init /\ [][NextVisual]_vars

\* The render cycle of the Matrix visual: data views are delivered, the
\* deferred renders run, the user resizes and sorts columns, the control
\* binds row headers.
NextRender ==
    \/ \E kind \in OperationKinds, p \in RenderPayloads : OnDataChanged(kind, p)
    \/ \E shouldPersistAllColumnWidths \in BOOLEAN :
            RunDeferredRender(shouldPersistAllColumnWidths)
    \/ PersistColumnWidths
    \/ \E item \in DOMAIN nodes : OnColumnHeaderClick(item)
    \/ \E item \in DOMAIN nodes : OnBindRowHeader(item)

SpecRender == Init /\ [][NextRender]_vars

\* The binder and the control: the column headers of one data view are
\* bound to cells and unbound again.
NextBind ==
    \/ \E p \in SortPayloads : Create(p)
    \/ \E item \in DOMAIN nodes : BindColumnHeader(item)
    \/ \E item \in DOMAIN nodes : UnbindColumnHeader(item)

SpecBind == Init /\ [][NextBind]_vars

\* The Matrix visual and a host whose merged data views also continue the
\* last row, or come with a column root of their own.
NextHost ==
    \/ NextVisual
    \/ \E kind \in OperationKinds : OnDataGrown(kind)
    \/ \E kind \in OperationKinds, c \in FewColumns : OnDataRecolumned(kind, c)

SpecHost == Init /\ [][NextHost]_vars

\* The static headers: a navigator on a payload with static leaves, and
\* flattened again.
NextStatic ==
    \/ \E p \in StaticPayloads : Create(p)
    \/ \E updateColumns \in BOOLEAN : UpdateNoPayload(updateColumns)

SpecStatic == Init /\ [][NextStatic]_vars

(***************************************************************************)
(* Properties.                                                             *)
(***************************************************************************)
RowItemOf(call) == call.args[1]
ColumnItemOf(call) == call.args[2]
RowLevelOf(call) == call.args[1]
ColumnLevelOf(call) == call.args[2]

\* The leaves below a list of nodes, depth first, in children order.
RECURSIVE LeavesBelow(_, _)
LeavesBelow(heap, ns) ==
    IF Len(ns) = 0 THEN <<>>
    ELSE (IF Len(heap[Head(ns)].children) = 0 THEN <<Head(ns)>>
          ELSE LeavesBelow(heap, heap[Head(ns)].children))
         \o LeavesBelow(heap, Tail(ns))

ReachableLeaves(heap, root) == LeavesBelow(heap, heap[root].children)

LeafSequenceExact(hierarchy) ==
    /\ hierarchy.leafNodes = ReachableLeaves(nodes, hierarchy.root)
    /\ \A i \in 1..Len(hierarchy.leafNodes) :
          nodes[hierarchy.leafNodes[i]].leafIndex = i - 1

LeafAccessExact(hierarchy) ==
    /\ nodes[hierarchy.root].hasChildren =>
          getLeafCount(nav, nodes, ChildrenOf(nodes, hierarchy.root))
              = Len(ReachableLeaves(nodes, hierarchy.root))
    /\ \A i \in 0..(getLeafCount(nav, nodes, ChildrenOf(nodes, hierarchy.root)) - 1) :
          getLeafIndex(nodes,
                       getLeafAt(nav, nodes, ChildrenOf(nodes, hierarchy.root), i))
              = i

\* C1: after any update, the leaf sequence of the row and of the column
\* hierarchy is exactly the childless nodes reachable from root.children, in
\* depth-first children order, the leaf at position i has leafIndex i, and
\* getLeafIndex(getLeafAt(h, i)) = i for every i below getLeafCount(h).
C1_LeafSequences ==
    nav.constructed =>
        /\ LeafSequenceExact(nav.rowHierarchy)
        /\ LeafSequenceExact(nav.columnHierarchy)
        /\ LeafAccessExact(nav.rowHierarchy)
        /\ LeafAccessExact(nav.columnHierarchy)

\* An update has left two row leaves and a column leaf that is the first
\* child of its parent without being the first leaf.
C1_Witness ==
    /\ nav.constructed
    /\ ret.op = "update"
    /\ Len(nav.rowHierarchy.leafNodes) = 2
    /\ \E i \in 1..Len(nav.columnHierarchy.leafNodes) :
          /\ nodes[nav.columnHierarchy.leafNodes[i]].index = 0
          /\ nodes[nav.columnHierarchy.leafNodes[i]].leafIndex = 1

\* C2: update() without a payload on an unchanged tree leaves, on both axes,
\* the same leaf sequence and the same index and leafIndex on every node.
C2_FlattenIdempotent ==
    [][ret'.op = "updateAgain" =>
          /\ nav'.rowHierarchy.leafNodes = nav.rowHierarchy.leafNodes
          /\ nav'.columnHierarchy.leafNodes = nav.columnHierarchy.leafNodes
          /\ DOMAIN nodes' = DOMAIN nodes
          /\ \A a \in DOMAIN nodes :
                /\ nodes'[a].index = nodes[a].index
                /\ nodes'[a].leafIndex = nodes[a].leafIndex]_vars

\* update() has run again on a navigator with several leaves on both axes.
C2_Witness ==
    /\ ret.op = "updateAgain"
    /\ Len(nav.rowHierarchy.leafNodes) = 2
    /\ Len(nav.columnHierarchy.leafNodes) >= 2

HasNoChildren(heap, root) == ~heap[root].hasChildren \/ Len(heap[root].children) = 0

FlattensToNothing(hierarchy) ==
    HasNoChildren(nodes, hierarchy.root) =>
        /\ hierarchy.leafNodes = <<>>
        /\ ~updateHierarchy(hierarchy, nodes).threw
        /\ updateHierarchy(hierarchy, nodes).hierarchy.leafNodes = <<>>

DepthOf(levels) == IF Len(levels) >= 1 THEN Len(levels) ELSE 1

\* C3: a hierarchy whose root has no children (absent or empty) flattens to
\* zero leaves without error, a create only fails on a payload that has
\* nodes, and getRowHierarchyDepth / getColumnHierarchyDepth return the
\* number of declared levels of the payload's hierarchy, or 1 if that is 0.
C3_EmptyRootAndDepth ==
    /\ nav.constructed =>
          FlattensToNothing(nav.rowHierarchy) /\ FlattensToNothing(nav.columnHierarchy)
    /\ (ret.op = "create" /\ ret.threw) =>
          ~(HasNoChildren(nodes, RowBase(ret.args[1]))
            /\ HasNoChildren(nodes, ColBase(ret.args[1])))
    /\ ret.op = "getRowHierarchyDepth" =>
          /\ ret.result.depth = DepthOf(nav.matrix.rows.levels)
          /\ ret.result.depth >= 1
    /\ ret.op = "getColumnHierarchyDepth" =>
          /\ ret.result.depth = DepthOf(nav.matrix.columns.levels)
          /\ ret.result.depth >= 1

\* The depth of a column hierarchy with no declared level and no children
\* property on its root has been asked for, beside an empty row root.
C3_Witness ==
    /\ ret.op = "getColumnHierarchyDepth"
    /\ ret.result.depth = 1
    /\ Len(nav.matrix.columns.levels) = 0
    /\ ~nodes[nav.columnHierarchy.root].hasChildren
    /\ nodes[nav.rowHierarchy.root].hasChildren
    /\ nav.rowHierarchy.leafNodes = <<>>
    /\ nav.columnHierarchy.leafNodes = <<>>

\* The node is the first element of some children array.
IsFirstChild(heap, item) ==
    \E a \in DOMAIN heap : Len(heap[a].children) > 0 /\ heap[a].children[1] = item

\* C4: whatever item getIntersection returns, isSubtotal is (rowItem.isSubtotal
\* or columnItem.isSubtotal) and isLeftMost says that the column item is the
\* first of its siblings (index 0), not that it is the first leaf.
C4_SubtotalAndLeftMost ==
    (ret.op = "getIntersection" /\ ~ret.threw) =>
        /\ ret.result.isSubtotal =
              (nodes[RowItemOf(ret)].isSubtotal \/ nodes[ColumnItemOf(ret)].isSubtotal)
        /\ ret.result.isLeftMost = (nodes[ColumnItemOf(ret)].index = 0)
        /\ ret.result.isLeftMost = IsFirstChild(nodes, ColumnItemOf(ret))

\* A text cell of a subtotal row in a column that is leftmost among its
\* siblings and has leaf index 1.
C4_Witness ==
    /\ ret.op = "getIntersection"
    /\ ~ret.threw
    /\ ret.result.dataPoint.defined
    /\ ret.result.textContent # UndefStr
    /\ ret.result.isLeftMost
    /\ ret.result.isSubtotal
    /\ nodes[RowItemOf(ret)].isSubtotal
    /\ ~nodes[ColumnItemOf(ret)].isSubtotal
    /\ nodes[ColumnItemOf(ret)].leafIndex = 1

\* C5: a row item without a values array gives, for every column item, the
\* "not yet loaded" cell (no dataPoint, text ""); a row item with a values
\* array and nothing stored at the column's leaf index gives a cell with no
\* dataPoint and no text, so the two can be told apart.
C5_NotLoadedCell ==
    ret.op = "getIntersection" =>
        /\ ~nodes[RowItemOf(ret)].hasValues =>
              /\ ~ret.threw
              /\ ~ret.result.dataPoint.defined
              /\ ret.result.textContent = ""
              /\ ret.result.domContent = UndefStr
        /\ (nodes[RowItemOf(ret)].hasValues
            /\ nodes[ColumnItemOf(ret)].leafIndex
                  \notin DOMAIN nodes[RowItemOf(ret)].values) =>
              /\ ~ret.threw
              /\ ~ret.result.dataPoint.defined
              /\ ret.result.textContent = UndefStr

\* The cell of a leaf row without values in a leaf column.
C5_Witness ==
    /\ ret.op = "getIntersection"
    /\ ~nodes[RowItemOf(ret)].hasValues
    /\ nodes[RowItemOf(ret)].leafIndex # Undef
    /\ nodes[ColumnItemOf(ret)].leafIndex = 1
    /\ ret.result.textContent = ""

IsAbsentCell(item) ==
    ~item.threw /\ ~item.dataPoint.defined /\ item.textContent = UndefStr
    /\ item.domContent = UndefStr

\* C6: with a values array on the row item, getIntersection returns as
\* dataPoint exactly what is stored at values[columnItem.leafIndex]; with
\* nothing stored there it returns the absent-value cell and does not throw.
C6_LookupByLeafIndex ==
    (ret.op = "getIntersection" /\ nodes[RowItemOf(ret)].hasValues) =>
        IF nodes[ColumnItemOf(ret)].leafIndex \in DOMAIN nodes[RowItemOf(ret)].values
        THEN /\ ~ret.threw
             /\ ret.result.dataPoint =
                   nodes[RowItemOf(ret)].values[nodes[ColumnItemOf(ret)].leafIndex]
        ELSE IsAbsentCell(ret.result)

\* C7: getIntersection never throws, also when the stored intersection's
\* valueSourceIndex is beyond matrix.valueSources or the list is empty.
C7_NeverThrows ==
    ret.op = "getIntersection" => ~ret.threw

ColumnLevelIsLastOrNone(call) ==
    \/ ColumnLevelOf(call) = Len(nav.matrix.columns.levels) - 1
    \/ Len(nav.matrix.columns.levels) = 0

RowLevelIsLast(call) == RowLevelOf(call) = Len(nav.matrix.rows.levels) - 1

\* The first source of a declared level of the payload; none (undefined) for
\* a level the payload does not declare.
FirstSourceOfLevel(axis, levels, l) ==
    IF l < Len(levels) THEN LevelSource(axis, l, 0) ELSE NoColumn

IsRowOwned(call) ==
    /\ call.result.metadata =
          FirstSourceOfLevel("R", nav.matrix.rows.levels, RowLevelOf(call))
    /\ call.result.isColumnHeaderLeaf
    /\ call.result.isRowHeaderLeaf = RowLevelIsLast(call)

IsColumnOwned(call) ==
    /\ call.result.metadata =
          FirstSourceOfLevel("C", nav.matrix.columns.levels, ColumnLevelOf(call))
    /\ ~call.result.isColumnHeaderLeaf
    /\ call.result.isRowHeaderLeaf

IsEmptyCorner(item) ==
    item.metadata = NullColumn /\ ~item.isColumnHeaderLeaf /\ ~item.isRowHeaderLeaf

\* C8 as claimed: whenever columnLevel is the last column level or there is
\* no column level, the corner is row-owned, for every rowLevel >= 0, a row
\* hierarchy without levels asked at level 0 included.
C8_Original ==
    (ret.op = "getCorner" /\ ColumnLevelIsLastOrNone(ret)) => IsRowOwned(ret)

\* C8 (amended): whenever columnLevel is the last column level or there is no
\* column level, the corner is row-owned (metadata the first source of the
\* row level at rowLevel, isColumnHeaderLeaf, isRowHeaderLeaf iff rowLevel is
\* the last row level) if rowLevel is a declared row level, and the empty
\* corner otherwise.
C8_RowOwnedCorner ==
    (ret.op = "getCorner" /\ ColumnLevelIsLastOrNone(ret)) =>
        IF RowLevelOf(ret) < Len(nav.matrix.rows.levels)
        THEN IsRowOwned(ret)
        ELSE IsEmptyCorner(ret.result)

\* The corner of row level 0 of two, the column hierarchy having no level.
C8_Witness ==
    /\ ret.op = "getCorner"
    /\ Len(nav.matrix.columns.levels) = 0
    /\ Len(nav.matrix.rows.levels) = 2
    /\ RowLevelOf(ret) = 0
    /\ ret.result.isColumnHeaderLeaf
    /\ ~ret.result.isRowHeaderLeaf

\* C9 as claimed: whenever the column hierarchy has a level, columnLevel is
\* not its last and rowLevel is the last row level, the corner is
\* column-owned.
C9_Original ==
    (/\ ret.op = "getCorner"
     /\ ~ColumnLevelIsLastOrNone(ret)
     /\ RowLevelIsLast(ret)) => IsColumnOwned(ret)

\* C9 (amended): when the column hierarchy has a level, columnLevel is not
\* its last and rowLevel is the last row level, the corner is column-owned
\* (metadata the first source of the column level at columnLevel, not a
\* column header leaf, a row header leaf) if columnLevel is a declared column
\* level, and the empty corner otherwise.
C9_ColumnOwnedCorner ==
    (/\ ret.op = "getCorner"
     /\ ~ColumnLevelIsLastOrNone(ret)
     /\ RowLevelIsLast(ret)) =>
        IF ColumnLevelOf(ret) < Len(nav.matrix.columns.levels)
        THEN IsColumnOwned(ret)
        ELSE IsEmptyCorner(ret.result)

\* The corner of the last row level and column level 0 of two.
C9_Witness ==
    /\ ret.op = "getCorner"
    /\ Len(nav.matrix.columns.levels) = 2
    /\ ColumnLevelOf(ret) = 0
    /\ Len(nav.matrix.rows.levels) = 2
    /\ RowLevelOf(ret) = 1
    /\ ret.result.isRowHeaderLeaf
    /\ ret.result.metadata = LevelSource("C", 0, 0)

\* The metadata columns of the column levels.
ColumnLevelSources ==
    {LevelSource("C", l, s) : l \in 0..MaxLevels, s \in 0..1}

NeverColumnOwnedLeaf(item) ==
    /\ ~(item.isColumnHeaderLeaf /\ item.metadata \in ColumnLevelSources)
    /\ (item.metadata = NullColumn \/ item.metadata = NoColumn) =>
          (~item.isColumnHeaderLeaf /\ ~item.isRowHeaderLeaf)

\* C10 as claimed: the empty corner is returned exactly when neither rule 1
\* (columnLevel last, or no column level) nor rule 2 (else rowLevel last)
\* applies.
C10_Original ==
    ret.op = "getCorner" =>
        /\ NeverColumnOwnedLeaf(ret.result)
        /\ (ret.result.metadata = NullColumn) =
              (~ColumnLevelIsLastOrNone(ret) /\ ~RowLevelIsLast(ret))

\* C10 (amended): no corner is a column header leaf with metadata of the
\* column hierarchy; no corner has a leaf flag set without metadata; and the
\* empty corner (no metadata, both flags false) is returned exactly when
\* neither rule 1 applies with rowLevel a declared row level nor rule 2
\* applies with columnLevel a declared column level.
C10_RulesExclusive ==
    ret.op = "getCorner" =>
        /\ NeverColumnOwnedLeaf(ret.result)
        /\ (ret.result.metadata = NullColumn) = IsEmptyCorner(ret.result)
        /\ IsEmptyCorner(ret.result) =
              ~(\/ (/\ ColumnLevelIsLastOrNone(ret)
                    /\ RowLevelOf(ret) < Len(nav.matrix.rows.levels))
                \/ (/\ ~ColumnLevelIsLastOrNone(ret)
                    /\ RowLevelIsLast(ret)
                    /\ ColumnLevelOf(ret) < Len(nav.matrix.columns.levels)))

\* The empty corner of an interior position: neither level is the last of
\* its two.
C10_Witness ==
    /\ ret.op = "getCorner"
    /\ Len(nav.matrix.columns.levels) = 2
    /\ Len(nav.matrix.rows.levels) = 2
    /\ RowLevelOf(ret) = 0
    /\ ColumnLevelOf(ret) = 0
    /\ IsEmptyCorner(ret.result)

(***************************************************************************)
(* Properties of the sort targets.                                         *)
(***************************************************************************)
HeaderItemOf(call) == call.args[1]

\* The value source a node names: valueSources[levelSourceIndex], 0 for an
\* undefined index.
NamedValueSource(item) ==
    nav.matrix.valueSources[
        (IF item.levelSourceIndex = Undef THEN 0 ELSE item.levelSourceIndex) + 1]

IsLeafNode(heap, a) == Len(heap[a].children) = 0

\* The node is a child of a node (not the root) at level 0.
HasParentAtLevel(heap, a, level) ==
    \E b \in DOMAIN heap :
        /\ \E j \in 1..Len(heap[b].children) : heap[b].children[j] = a
        /\ heap[b].level = level

\* C11: when the row hierarchy declares no level, getSortableHeaderColumnMetadata
\* returns null for every column node and the corner item of every pair of
\* levels yields no sort target.
C11_NoRowLevelNoSort ==
    Len(nav.matrix.rows.levels) = 0 =>
        /\ ret.op = "getSortableHeaderColumnMetadata" =>
              ret.result.metadata = NullColumn
        /\ ret.op = "getSortableCornerColumnMetadata" =>
              /\ ret.result.metadata = NullColumn
              /\ ~ret.result.item.isColumnHeaderLeaf

\* The sort target of a column leaf that names value source 1 has been asked
\* for, in a matrix without row levels and without column groups.
C11_Witness ==
    /\ ret.op = "getSortableHeaderColumnMetadata"
    /\ Len(nav.matrix.rows.levels) = 0
    /\ Len(nav.matrix.columns.levels) = 1
    /\ Len(nav.matrix.valueSources) = 2
    /\ IsLeafNode(nodes, HeaderItemOf(ret))
    /\ nodes[HeaderItemOf(ret)].levelSourceIndex = 1
    /\ ret.result.metadata = NullColumn

\* C12: with a row level and exactly one column level (columnGroupCount 0),
\* every column leaf, subtotal or not, at any level, has as sort target the
\* value source at its levelSourceIndex, an undefined index meaning 0.
C12_MeasureColumnsSortable ==
    (/\ ret.op = "getSortableHeaderColumnMetadata"
     /\ Len(nav.matrix.rows.levels) >= 1
     /\ Len(nav.matrix.columns.levels) = 1
     /\ IsLeafNode(nodes, HeaderItemOf(ret))) =>
        /\ IsSortTarget(ret.result.metadata)
        /\ ret.result.metadata = NamedValueSource(nodes[HeaderItemOf(ret)])

\* A subtotal leaf at level 1 without a levelSourceIndex is sortable by the
\* first of two value sources.
C12_Witness ==
    /\ ret.op = "getSortableHeaderColumnMetadata"
    /\ Len(nav.matrix.rows.levels) >= 1
    /\ Len(nav.matrix.columns.levels) = 1
    /\ Len(nav.matrix.valueSources) = 2
    /\ IsLeafNode(nodes, HeaderItemOf(ret))
    /\ nodes[HeaderItemOf(ret)].isSubtotal
    /\ nodes[HeaderItemOf(ret)].level = 1
    /\ nodes[HeaderItemOf(ret)].levelSourceIndex = Undef
    /\ ret.result.metadata = nav.matrix.valueSources[1]

IsGrandTotalNode(heap, a) ==
    /\ heap[a].isSubtotal
    /\ IF Len(nav.matrix.valueSources) > 1
       THEN HasParentAtLevel(heap, a, 0)
       ELSE heap[a].level = 0

\* C13: with a row level and columnGroupCount other than 0, a column node is
\* sortable iff it is a subtotal and, with more than one value source, its
\* parent exists and is at level 0, or, with one value source, it is at
\* level 0 itself; its target is then the value source at its
\* levelSourceIndex (default 0), and otherwise the result is null.
C13_GrandTotalOnly ==
    (/\ ret.op = "getSortableHeaderColumnMetadata"
     /\ Len(nav.matrix.rows.levels) >= 1
     /\ Len(nav.matrix.columns.levels) # 1) =>
        /\ IsSortTarget(ret.result.metadata) = IsGrandTotalNode(nodes, HeaderItemOf(ret))
        /\ IsGrandTotalNode(nodes, HeaderItemOf(ret)) =>
              ret.result.metadata = NamedValueSource(nodes[HeaderItemOf(ret)])
        /\ ~IsGrandTotalNode(nodes, HeaderItemOf(ret)) =>
              ret.result.metadata = NullColumn

\* With two value sources, a subtotal leaf whose parent is at level 1 is not
\* sortable.
C13_Witness ==
    /\ ret.op = "getSortableHeaderColumnMetadata"
    /\ Len(nav.matrix.rows.levels) >= 1
    /\ Len(nav.matrix.columns.levels) = 3
    /\ Len(nav.matrix.valueSources) = 2
    /\ IsLeafNode(nodes, HeaderItemOf(ret))
    /\ nodes[HeaderItemOf(ret)].isSubtotal
    /\ HasParentAtLevel(nodes, HeaderItemOf(ret), 1)
    /\ ret.result.metadata = NullColumn

\* The node is a child of a subtotal node at level 0.
IsMeasureOfGrandTotal(heap, a) ==
    \E b \in DOMAIN heap :
        /\ \E j \in 1..Len(heap[b].children) : heap[b].children[j] = a
        /\ heap[b].level = 0
        /\ heap[b].isSubtotal

\* C14: in a matrix with column groups, every column node for which
\* getSortableHeaderColumnMetadata returns a value source is a subtotal leaf,
\* and is the level-0 column subtotal or a child of the level-0 subtotal
\* node; no non-leaf node and no subtotal under a group member that is not a
\* subtotal is reported sortable.
C14_OnlyGrandTotalLeaves ==
    (/\ ret.op = "getSortableHeaderColumnMetadata"
     /\ Len(nav.matrix.columns.levels) > 1
     /\ IsSortTarget(ret.result.metadata)) =>
        /\ nodes[HeaderItemOf(ret)].isSubtotal
        /\ IsLeafNode(nodes, HeaderItemOf(ret))
        /\ \/ nodes[HeaderItemOf(ret)].level = 0
           \/ IsMeasureOfGrandTotal(nodes, HeaderItemOf(ret))

\* C15: the sort target of a corner item is its metadata if the item is a
\* column header leaf and null otherwise, whatever its metadata: the corner
\* is sortable iff isColumnHeaderLeaf.
C15_CornerSortable ==
    ret.op = "getSortableCornerColumnMetadata" =>
        /\ IsSortTarget(ret.result.metadata) = ret.result.item.isColumnHeaderLeaf
        /\ ret.result.item.isColumnHeaderLeaf =>
              ret.result.metadata = ret.result.item.metadata
        /\ ~ret.result.item.isColumnHeaderLeaf =>
              ret.result.metadata = NullColumn

\* A column-owned corner, which has metadata and is not a column header
\* leaf, has no sort target.
C15_Witness ==
    /\ ret.op = "getSortableCornerColumnMetadata"
    /\ ~ret.result.item.isColumnHeaderLeaf
    /\ ret.result.item.isRowHeaderLeaf
    /\ ret.result.item.metadata = LevelSource("C", 0, 0)
    /\ ret.result.metadata = NullColumn

(***************************************************************************)
(* Properties of the Matrix visual's data deliveries.                      *)
(***************************************************************************)
IsDelivery(call) == call.op \in {"onDataChanged:" \o kind : kind \in OperationKinds}
IsAppend(call) == call.op = "onDataChanged:Append"

\* The fields of the node at a that a header shows are the same in heaps
\* before and after.
SameHeader(before, after, a) ==
    /\ a \in DOMAIN after
    /\ after[a].leafIndex = before[a].leafIndex
    /\ after[a].index = before[a].index
    /\ after[a].parent = before[a].parent
    /\ after[a].name = before[a].name

\* The hierarchy is the flattening of the tree at root, as the heap has it.
BuiltFrom(hierarchy, heap, root) ==
    /\ hierarchy.root = root
    /\ hierarchy.leafNodes = ReachableLeaves(heap, root)
    /\ \A i \in 1..Len(hierarchy.leafNodes) : heap[hierarchy.leafNodes[i]].leafIndex = i - 1

\* C16: update(newPayload, false), the call an Append delivery on the same
\* row root makes, leaves the column hierarchy object, its leaf sequence
\* and every column leaf's leafIndex, index and label as they were, and
\* rebuilds the row leaf sequence from the new payload's rows, appended
\* row included.
C16_AppendKeepsColumns ==
    [][(IsAppend(ret') /\ ~ret'.threw
            /\ ~rootChanged(visual.dataView, visual'.dataView))
        => /\ nav'.columnHierarchy = nav.columnHierarchy
           /\ \A a \in Range(nav.columnHierarchy.leafNodes) :
                SameHeader(nodes, nodes', a)
           /\ nav'.matrix = visual'.dataView
           /\ BuiltFrom(nav'.rowHierarchy, nodes', visual'.dataView.rows.root)
           /\ Len(nav'.rowHierarchy.leafNodes)
                = Len(nav.rowHierarchy.leafNodes) + 1]_vars

C16_Witness ==
    /\ IsAppend(ret) /\ ~ret.threw /\ ~visual.updatedModels
    /\ Len(nav.rowHierarchy.leafNodes) >= 2
    /\ Len(nav.columnHierarchy.leafNodes) >= 2
    /\ nav.matrix.id = 2

\* Both hierarchies are built from the data view the visual holds, and the
\* control's models are the children of its roots.
RebuiltWithModels(v, n, heap) ==
    /\ n.constructed
    /\ BuiltFrom(n.rowHierarchy, heap, v.dataView.rows.root)
    /\ BuiltFrom(n.columnHierarchy, heap, v.dataView.columns.root)
    /\ v.updatedModels
    /\ v.rowModel = ChildrenOf(heap, v.dataView.rows.root)
    /\ v.columnModel = ChildrenOf(heap, v.dataView.columns.root)

\* C17: on every delivery, Append included, a row root that is another
\* object than the previous data view's has both hierarchies rebuilt from
\* the new payload and the control's models replaced by the new roots'
\* children; an Append on the same row root does not replace the models.
C17_RootChangeRebuilds ==
    [][IsDelivery(ret')
        => /\ rootChanged(visual.dataView, visual'.dataView)
                => ~ret'.threw /\ RebuiltWithModels(visual', nav', nodes')
           /\ (IsAppend(ret') /\ ~rootChanged(visual.dataView, visual'.dataView))
                => /\ ~visual'.updatedModels
                   /\ visual'.rowModel = visual.rowModel
                   /\ visual'.columnModel = visual.columnModel]_vars

\* C18: the first payload delivered to a visual that holds no data view
\* populates it, both axes built from scratch, whatever the operation kind
\* (Append included); every later payload not marked Append rebuilds both
\* axes.
C18_FirstPayloadPopulates ==
    [][(IsDelivery(ret') /\ (visual.dataView = NoMatrix \/ ~IsAppend(ret')))
        => /\ ~ret'.threw
           /\ visual'.tablixControl
           /\ nav'.constructed
           /\ BuiltFrom(nav'.rowHierarchy, nodes', visual'.dataView.rows.root)
           /\ BuiltFrom(nav'.columnHierarchy, nodes', visual'.dataView.columns.root)]_vars

\* The leaves of the snapshot the navigator n has published.
PublishedLeaves(n) == Range(n.rowHierarchy.leafNodes) \cup Range(n.columnHierarchy.leafNodes)

\* The trees of the data view the visual holds.
CurrentTrees(v) == {v.dataView.rows.root, v.dataView.columns.root}

FormattedLabel(levels, node) ==
    IF InRange(levels, node.level)
       /\ getFormatString(At(At(levels, node.level).sources, SourceIndex(node))) # ""
    THEN formatter(node.value, At(At(levels, node.level).sources, SourceIndex(node)))
    ELSE UndefStr

\* The display name of the source at the node's levelSourceIndex (default
\* 0) in the descriptor of the level named.
DisplayNameAt(levels, level, node) == At(At(levels, level).sources, SourceIndex(node)).displayName

\* C20: after a column-axis flatten every column leaf with no identity and
\* value undefined is labelled with the display name of the source at its
\* levelSourceIndex (default 0) in the descriptor of the leaf's own level,
\* whatever its formatted label; a column leaf with an identity or with
\* value null is not backfilled, and no row leaf is.
C20_StaticBackfill ==
    (nav.constructed /\ ~ret.threw)
    => /\ \A a \in Range(nav.columnHierarchy.leafNodes) :
            nodes[a].name =
                IF IsStaticLeaf(nodes[a])
                THEN DisplayNameAt(nav.columnHierarchy.levels, nodes[a].level, nodes[a])
                ELSE FormattedLabel(nav.columnHierarchy.levels, nodes[a])
       /\ \A a \in Range(nav.rowHierarchy.leafNodes) :
            nodes[a].name = FormattedLabel(nav.rowHierarchy.levels, nodes[a])

(***************************************************************************)
(* Properties of the fields the flattening leaves on the nodes.            *)
(***************************************************************************)
\* The nodes of the trees the navigator n has flattened, roots excluded.
FlattenedNodes(n, heap) == NodesBelow(heap, n.rowHierarchy.root) \cup NodesBelow(heap, n.columnHierarchy.root)

\* C21: after every update leafIndex is undefined on every node that is
\* not a leaf, also when the same node objects are flattened again and a
\* node that was a leaf before has children now.
C21_NonLeafHasNoLeafIndex ==
    (nav.constructed /\ IsDelivery(ret) /\ ~ret.threw)
    => \A a \in FlattenedNodes(nav, nodes) :
            HasChildNodes(nodes[a]) => nodes[a].leafIndex = Undef

\* C22: after flattening queryName is undefined on every node that is not
\* a leaf: only leaves carry a queryName.
C22_OnlyLeavesHaveQueryName ==
    (nav.constructed /\ ~ret.threw)
    => \A a \in FlattenedNodes(nav, nodes) :
            HasChildNodes(nodes[a]) => nodes[a].queryName = UndefStr

\* The level descriptors of the hierarchy the node at a belongs to.
LevelsOf(n, a) ==
    IF BlockOf(a) = n.rowHierarchy.root THEN n.rowHierarchy.levels
    ELSE n.columnHierarchy.levels

\* The node's declared level is among the level descriptors.
HasDeclaredLevel(levels, node) == InRange(levels, node.level)

\* The node's level is declared and has a source at its levelSourceIndex.
HasDeclaredSource(levels, node) ==
    /\ HasDeclaredLevel(levels, node)
    /\ InRange(At(levels, node.level).sources, SourceIndex(node))

IsFlatten(call) == call.op \in {"create", "updateAgain"}

\* C23: flattening does not throw on malformed level metadata: with a
\* node's level missing from the level descriptors (a column hierarchy of
\* no levels and a leaf included) or a levelSourceIndex beyond the level's
\* sources, update completes, every leaf has its leaf index, and the node
\* affected has no resolved label and no query name.
C23_FlattenNeverThrows ==
    IsFlatten(ret)
    => /\ ~ret.threw
       /\ nav.constructed
       /\ BuiltFrom(nav.rowHierarchy, nodes, nav.matrix.rows.root)
       /\ BuiltFrom(nav.columnHierarchy, nodes, nav.matrix.columns.root)
       /\ \A a \in FlattenedNodes(nav, nodes) :
            ~HasDeclaredSource(LevelsOf(nav, a), nodes[a])
                => nodes[a].queryName = UndefStr

(***************************************************************************)
(* Properties of the render cycle.                                         *)
(***************************************************************************)
IsDeferredRender(call) == call.op = "deferredRender"

\* C24: a newer payload supersedes an older one: a deferred render that
\* runs is the one of the newest delivery; nothing scheduled for a
\* delivery runs once a later delivery has arrived.
C24_NewestDeliveryOnly ==
    [][IsDeferredRender(ret') /\ Len(visual'.timers) < Len(visual.timers)
        => ret'.args[1] = visual.dataView.id]_vars

\* C25: an Append delivery whose column root is another object than the
\* previous data view's, the rows root being the same, is detected: the
\* column hierarchy is rebuilt from the new payload and the models are
\* updated, so the navigator's matrix and its column snapshot come from
\* the same payload.
C25_ColumnRootChangeDetected ==
    [][(IsAppend(ret') /\ ~ret'.threw
            /\ ~rootChanged(visual.dataView, visual'.dataView)
            /\ visual'.dataView.columns.root # visual.dataView.columns.root)
        => /\ nav'.matrix = visual'.dataView
           /\ BuiltFrom(nav'.columnHierarchy, nodes', nav'.matrix.columns.root)
           /\ visual'.updatedModels
           /\ visual'.columnModel = ChildrenOf(nodes', visual'.dataView.columns.root)]_vars

\* C26: the flattening resolves each node's level descriptor from the
\* node's own declared level: every node whose level is declared has the
\* queryName of the source at its levelSourceIndex (default 0) in
\* levels[node.level], also among siblings that declare different levels.
C26_OwnLevelResolved ==
    (nav.constructed /\ IsFlatten(ret) /\ ~ret.threw)
    => \A a \in FlattenedNodes(nav, nodes) :
            HasDeclaredSource(LevelsOf(nav, a), nodes[a])
                => nodes[a].queryName
                    = At(At(LevelsOf(nav, a), nodes[a].level).sources,
                         SourceIndex(nodes[a])).queryName

IsBindRowHeader(call) == call.op = "onBindRowHeader"

\* The row header bound is one past the load-more threshold of a data view
\* that has a segment.
PastThreshold(v, heap, item) ==
    /\ isLeaf(heap, item)
    /\ v.metadata.segment
    /\ 10 * heap[item].leafIndex >= 8 * getItemsCount(v, heap)

\* C27: between two consecutive onDataChanged calls loadMoreData is
\* requested at most once, however many row headers are bound; it is
\* requested only on binding a row leaf whose leafIndex is at least 0.8
\* times the row item count, the metadata having a segment and no request
\* being outstanding; and every onDataChanged leaves waitingForData false.
C27_LoadMoreAtMostOnce ==
    [][/\ visual'.loadMoreRequests <= 1
       /\ (IsBindRowHeader(ret') /\ "loadMoreData" \in visual'.effects)
            => /\ PastThreshold(visual, nodes, ret'.args[1])
               /\ ~visual.waitingForData
               /\ visual.loadMoreRequests = 0
               /\ visual'.waitingForData
       /\ (IsBindRowHeader(ret') /\ "loadMoreData" \notin visual'.effects)
            => visual'.loadMoreRequests = visual.loadMoreRequests
       /\ IsDelivery(ret')
            => ~visual'.waitingForData /\ visual'.loadMoreRequests = 0]_vars

\* A row header past the threshold is bound while a request is outstanding.
C27_Witness ==
    /\ IsBindRowHeader(ret)
    /\ PastThreshold(visual, nodes, ret.args[1])
    /\ visual.waitingForData
    /\ visual.loadMoreRequests = 1
    /\ "loadMoreData" \notin visual.effects

\* A data change that is not an Append and has run to its end.
IsFullChange(call) == call.op = "onDataChanged:Create" /\ ~call.threw

\* C28: column-width persistence does not loop: once persistColumnWidths
\* has raised persistingObjects, the next data change that is not an
\* Append neither updates the column width manager nor resets the scroll
\* offsets, and its deferred render lowers persistingObjects without
\* persisting all column widths; a deferred render that finds
\* persistingObjects raised never persists, in any interleaving of data
\* changes and deferred renders.
C28_PersistDoesNotLoop ==
    [][/\ (IsFullChange(ret') /\ visual.persistPending)
            => /\ "updateDataView" \notin visual'.effects
               /\ "resetScrollOffsets" \notin visual'.effects
       /\ (IsDeferredRender(ret') /\ Head(visual.timers).afterPersist)
            => /\ "persistAllColumnWidths" \notin visual'.effects
               /\ ~visual'.persistingObjects
       /\ (IsDeferredRender(ret') /\ visual.persistingObjects)
            => "persistAllColumnWidths" \notin visual'.effects]_vars

\* The deferred render the data change has just scheduled.
ScheduledRender(v) == v.timers[Len(v.timers)]

\* C29: a data change that is not an Append has the control refreshed
\* without clearing exactly when a column header was clicked for a sort
\* since the last data change and its metadata is equivalent to that of
\* the data view before; every other data change that is not an Append
\* has the control cleared; and every onDataChanged leaves waitingForSort
\* false.
C29_KeepOnlyAfterSort ==
    [][/\ IsFullChange(ret')
            => /\ ScheduledRender(visual').delivery = ret'.args[1]
               /\ ScheduledRender(visual').shouldClear
                    = ~(/\ visual.sortClicked
                        /\ isMetadataEquivalent(visual.metadata, visual'.metadata))
       /\ (IsDeferredRender(ret') /\ "refresh:keep" \in visual'.effects)
            => ~Head(visual.timers).shouldClear
       /\ IsDelivery(ret') => ~visual'.waitingForSort]_vars

\* A data change with equivalent metadata follows a sort click, and its
\* deferred render has refreshed the control without clearing.
C29_Witness ==
    /\ IsDeferredRender(ret)
    /\ "refresh:keep" \in visual.effects
    /\ ret.args[1] = MaxPayloads

\* C30: registering and unregistering click handlers on column header
\* cells are paired: for every column header, leaf or not, and the data
\* view unchanged, unbindColumnHeader unregisters a click handler only if
\* the bindColumnHeader of that node before it registered one.
C30_UnregisterOnlyRegistered ==
    [][(ret'.op = "unbindColumnHeader" /\ ret'.result.unregistered)
            => visual.columnCells[ret'.args[1]]]_vars

====
